---- MODULE Spec2Model ----
(***************************************************************************)
(* framesconv: RGBX -> NV12 conversion on the GPU.                         *)
(*                                                                         *)
(* The model follows one run of main(): ParseCommandline over argv, the    *)
(* acquisition of the GBM device and buffers, the EGL context, the two     *)
(* image/texture imports, the conversion kernel, Convert, Sync and the     *)
(* drain, and the destruction of every automatic object at scope exit.     *)
(* Native calls (libc, gbm, EGL, GL) are the environment: each may fail,   *)
(* and every call the program makes is appended to a log.                  *)
(***************************************************************************)
EXTENDS Integers, Sequences, FiniteSets, TLC

(***************************************************************************)
(* Bounds of the model.                                                    *)
(***************************************************************************)
\* Longest argv (argc) enumerated exhaustively over Tokens.
MaxArgs == 3

(***************************************************************************)
(* C strings are tuples of characters; the null pointer is a reserved      *)
(* tuple that is no string of the alphabet.                                *)
(***************************************************************************)
nullptr == <<"nullptr">>

tok_w == <<"-", "w">>
tok_h == <<"-", "h">>
tok_i == <<"-", "i">>
tok_o == <<"-", "o">>
tok_r == <<"-", "r">>
tok_es == <<"-", "e", "s">>
tok_dash == <<"-">>
tok_20 == <<"2", "0">>
tok_31 == <<"3", "1">>
tok_8 == <<"8">>
tok_4 == <<"4">>
tok_0 == <<"0">>
tok_m8 == <<"-", "8">>
tok_16 == <<"1", "6">>
tok_12 == <<"1", "2">>
tok_f == <<"f">>

\* The words argv is built from.
Tokens == {tok_w, tok_h, tok_i, tok_r, tok_es, tok_dash, tok_20, tok_8, tok_4, tok_0, tok_m8}

\* The operands of -w and -h tried in complete command lines.
SizeTokens == {tok_8, tok_16, tok_4, tok_12, tok_20, tok_0, tok_m8}

\* Every argv of at most MaxArgs words.
ShortArgv == UNION {[1..n -> Tokens] : n \in 0..MaxArgs}

\* Complete command lines: -w W -h H, optionally with input, output and implementation.
FullArgv ==
    {<<tok_w, w, tok_h, h>> \o t : w \in SizeTokens, h \in SizeTokens,
        t \in {<<>>, <<tok_es, tok_20>>, <<tok_es, tok_31>>, <<tok_i, tok_f, tok_o, tok_f>>}}
    \cup {<<tok_es, tok_20, tok_h, h, tok_w, w>> : w \in SizeTokens, h \in SizeTokens}

ArgvSet == ShortArgv \cup FullArgv

(***************************************************************************)
(* libc atoi: optional sign, then decimal digits up to the first other     *)
(* character.                                                              *)
(***************************************************************************)
DigitChars == <<"0", "1", "2", "3", "4", "5", "6", "7", "8", "9">>

IsDigit(c) == \E i \in 1..10 : DigitChars[i] = c

DigitValue(c) == (CHOOSE i \in 1..10 : DigitChars[i] = c) - 1

RECURSIVE AtoiDigits(_, _, _)
AtoiDigits(s, i, acc) ==
    IF i > Len(s) \/ ~IsDigit(s[i]) THEN acc
    ELSE AtoiDigits(s, i + 1, acc * 10 + DigitValue(s[i]))

atoi(s) ==
    IF s = <<>> THEN 0
    ELSE IF s[1] = "-" THEN 0 - AtoiDigits(s, 2, 0)
    ELSE IF s[1] = "+" THEN AtoiDigits(s, 2, 0)
    ELSE AtoiDigits(s, 1, 0)

\* a & b on non-negative integers.
RECURSIVE BitAnd(_, _)
BitAnd(a, b) ==
    IF a = 0 \/ b = 0 THEN 0
    ELSE (a % 2) * (b % 2) + 2 * BitAnd(a \div 2, b \div 2)

(***************************************************************************)
(* ParseCommandline.                                                       *)
(***************************************************************************)
\* How a call ends: it returns a value, throws, or (undefined behaviour) crashes.
Return(v) == [kind |-> "return", value |-> v, what |-> ""]
Throw(msg) == [kind |-> "throw", value |-> 0, what |-> msg]
Crash == [kind |-> "crash", value |-> 0, what |-> "SIGSEGV"]

\* The width mask a baseline-only check would use.
WidthMask_baseline == 4 - 1

WidthMask == 7
HeightMask == 3

\* Options result{} with the default render node.
kRenderNode == <<"/dev/dri/renderD128">>
NoOptions ==
    [width |-> 0, height |-> 0, input |-> nullptr, output |-> nullptr,
     render_node |-> nullptr, es20 |-> FALSE]
InitialResult == [NoOptions EXCEPT !.render_node = kRenderNode]

\* A check that leaves the alignment out.
check_size_unaligned(in, mask) ==
    IF in = nullptr THEN Throw("Missing argument")
    ELSE LET value == atoi(in) IN
         IF value <= 0 THEN Throw("Size must be positive") ELSE Return(value)

check_size(in, mask) ==
    IF in = nullptr THEN Throw("Missing argument")
    ELSE LET value == atoi(in) IN
         IF value <= 0 THEN Throw("Size must be positive")
         ELSE IF BitAnd(value, mask) # 0 THEN Throw("Size must be aligned")
         ELSE Return(value)

\* in == "-"sv builds a string_view from in: undefined for a null pointer, where the
\* build either faults in strlen or compares unequal.
check_fname(in) ==
    IF in = nullptr THEN {Crash, Return(nullptr)}
    ELSE {Return(IF in = tok_dash THEN nullptr ELSE in)}

check_implementation(in) ==
    IF in = nullptr THEN {Crash, Throw("Invalid implementation")}
    ELSE IF in = tok_31 THEN {Return(FALSE)}
    ELSE IF in = tok_20 THEN {Return(TRUE)}
    ELSE {Throw("Invalid implementation")}

\* One iteration of the option loop on option opt with the word after it, arg:
\* the outcomes, each with the updated result and the words consumed.
Outcome(r, res, n) == [kind |-> r.kind, what |-> r.what, result |-> res, used |-> n]

ParseOption(res, opt, arg) ==
    IF opt = tok_w THEN
        LET r == check_size(arg, WidthMask) IN
        {Outcome(r, IF r.kind = "return" THEN [res EXCEPT !.width = r.value] ELSE res, 2)}
    ELSE IF opt = tok_h THEN
        LET r == check_size(arg, HeightMask) IN
        {Outcome(r, IF r.kind = "return" THEN [res EXCEPT !.height = r.value] ELSE res, 2)}
    ELSE IF opt = tok_i THEN
        {Outcome(r, IF r.kind = "return" THEN [res EXCEPT !.input = r.value] ELSE res, 2) :
            r \in check_fname(arg)}
    ELSE IF opt = tok_o THEN
        {Outcome(r, IF r.kind = "return" THEN [res EXCEPT !.output = r.value] ELSE res, 2) :
            r \in check_fname(arg)}
    ELSE IF opt = tok_r THEN
        {Outcome(Return(arg), [res EXCEPT !.render_node = arg], 2)}
    ELSE IF opt = tok_es THEN
        {Outcome(r, IF r.kind = "return" THEN [res EXCEPT !.es20 = r.value] ELSE res, 2) :
            r \in check_implementation(arg)}
    ELSE {Outcome(Return(0), res, 1)}

kUsage == "Usage: framesconv [-i input] -w width -h height [-o output] [-r render_node] [-es implementation]"

(***************************************************************************)
(* The native layer.  A log entry is one native call: the function, the    *)
(* object it creates, binds or releases, and whether it succeeded.         *)
(***************************************************************************)
Call(fn, obj, ok) == [fn |-> fn, obj |-> obj, ok |-> ok]

\* How a constructor or a member function ends, with the native calls it made.
Built(cs) == [ok |-> TRUE, what |-> "", calls |-> cs]
Raised(msg, cs) == [ok |-> FALSE, what |-> msg, calls |-> cs]

(***************************************************************************)
(* GbmDevice and GbmBuffer.  The members are unique_ptrs: a member that    *)
(* holds a handle releases it when the object, or the half-built object    *)
(* whose constructor throws, is destroyed, in reverse declaration order.   *)
(***************************************************************************)
\* ~GbmDevice: device_ (gbm_device_destroy), then fd_ (FdCloser).
GbmDevice_dtor(fd_, device_) ==
    (IF device_ THEN <<Call("gbm_device_destroy", "gbm_device", TRUE)>> ELSE <<>>)
    \o (IF fd_ THEN <<Call("close", "device_fd", TRUE)>> ELSE <<>>)

GbmDevice_ctor(openOK, createOK) ==
    LET c1 == <<Call("open", "device_fd", openOK)>> IN
    IF ~openOK THEN Raised("Failed to open redner node", c1 \o GbmDevice_dtor(FALSE, FALSE))
    ELSE LET c2 == Append(c1, Call("gbm_create_device", "gbm_device", createOK)) IN
         IF ~createOK
         THEN Raised("Failed to create gbm device", c2 \o GbmDevice_dtor(TRUE, FALSE))
         ELSE Built(c2)

BoOf(name) == IF name = "rgbx" THEN "bo_rgbx" ELSE "bo_nv12"
FdOf(name) == IF name = "rgbx" THEN "fd_rgbx" ELSE "fd_nv12"

\* ~GbmBuffer: fd_ (FdCloser), then bo_ (gbm_bo_destroy).
GbmBuffer_dtor(name, bo_, fd_) ==
    (IF fd_ THEN <<Call("close", FdOf(name), TRUE)>> ELSE <<>>)
    \o (IF bo_ THEN <<Call("gbm_bo_destroy", BoOf(name), TRUE)>> ELSE <<>>)

\* A constructor that forgets the buffer object when gbm_bo_get_fd fails.
GbmBuffer_ctor_leak(name, boOK, fdOK) ==
    LET c1 == <<Call("gbm_bo_create", BoOf(name), boOK)>> IN
    IF ~boOK THEN Raised("Failed to create gbm buffer object", c1)
    ELSE LET c2 == Append(c1, Call("gbm_bo_get_fd", FdOf(name), fdOK)) IN
         IF ~fdOK THEN Raised("Failed to get gbm buffer object fd", c2) ELSE Built(c2)

GbmBuffer_ctor(name, boOK, fdOK) ==
    LET c1 == <<Call("gbm_bo_create", BoOf(name), boOK)>> IN
    IF ~boOK
    THEN Raised("Failed to create gbm buffer object", c1 \o GbmBuffer_dtor(name, FALSE, FALSE))
    ELSE LET c2 == Append(c1, Call("gbm_bo_get_fd", FdOf(name), fdOK)) IN
         IF ~fdOK
         THEN Raised("Failed to get gbm buffer object fd", c2 \o GbmBuffer_dtor(name, TRUE, FALSE))
         ELSE Built(c2)

\* A destination sized like the source plane only.
Nv12Geometry_luma(opts) == [width |-> opts.width \div 4, height |-> opts.height]

\* The geometry main asks for: the source is width x height, the destination
\* width / 4 x height * 3 / 2 (size_t arithmetic).
RgbxGeometry(opts) == [width |-> opts.width, height |-> opts.height]
Nv12Geometry(opts) == [width |-> opts.width \div 4, height |-> (opts.height * 3) \div 2]

NoBuffer == [width |-> 0, height |-> 0]

(***************************************************************************)
(* GbmBuffer::FillFrom and GbmBuffer::DrainTo.  A mapping log entry is a   *)
(* mmap or a munmap with its address (0 for MAP_FAILED) and size.          *)
(***************************************************************************)
Map(fn, addr, size) == [fn |-> fn, addr |-> addr, size |-> size]

MappedSize(buf) == buf.width * buf.height * 4

\* Defer deferred_munmap: runs when the scope is left, by return or by throw.
deferred_munmap(data, size) == <<Map("munmap", data, size)>>

\* FillFrom with the munmap placed after the read check instead of in a Defer.
FillFrom_leak(buf, data, stream) ==
    LET size == buf.width * buf.height * 4
        m == <<Map("mmap", data, size)>>
    IN  IF data = 0 THEN [ok |-> FALSE, what |-> "Failed to mmap gbm buffer object fd", maps |-> m]
        ELSE IF ~(stream.good /\ stream.avail >= size)
        THEN [ok |-> FALSE, what |-> "Failed to read source", maps |-> m]
        ELSE [ok |-> TRUE, what |-> "", maps |-> Append(m, Map("munmap", data, size))]

\* FillFrom without the check of the stream after the read.
FillFrom_unchecked(buf, data, stream) ==
    LET size == buf.width * buf.height * 4
        m == <<Map("mmap", data, size)>>
    IN  IF data = 0 THEN [ok |-> FALSE, what |-> "Failed to mmap gbm buffer object fd", maps |-> m]
        ELSE [ok |-> TRUE, what |-> "", maps |-> Append(m, Map("munmap", data, size))]

\* stream: [good, avail], the state of the istream and the bytes it can supply.
\* data is the address mmap returns, 0 for MAP_FAILED.
FillFrom(buf, data, stream) ==
    LET size == MappedSize(buf)
        m == <<Map("mmap", data, size)>>
    IN  IF data = 0 THEN [ok |-> FALSE, what |-> "Failed to mmap gbm buffer object fd", maps |-> m]
        ELSE IF ~(stream.good /\ stream.avail >= size)
        THEN [ok |-> FALSE, what |-> "Failed to read source", maps |-> m \o deferred_munmap(data, size)]
        ELSE [ok |-> TRUE, what |-> "", maps |-> m \o deferred_munmap(data, size)]

\* stream: [good, room], the state of the ostream and the bytes it can take.
DrainTo(buf, data, stream) ==
    LET size == MappedSize(buf)
        m == <<Map("mmap", data, size)>>
    IN  IF data = 0
        THEN [ok |-> FALSE, what |-> "Failed to mmap gbm buffer object fd", maps |-> m, written |-> 0]
        ELSE IF ~(stream.good /\ stream.room >= size)
        THEN [ok |-> FALSE, what |-> "Failed to write target", maps |-> m \o deferred_munmap(data, size),
              written |-> IF stream.good THEN stream.room ELSE 0]
        ELSE [ok |-> TRUE, what |-> "", maps |-> m \o deferred_munmap(data, size), written |-> size]

(***************************************************************************)
(* Extension strings.  A string is a tuple of pieces, each piece a run of  *)
(* characters that the strings of the model never split: an extension name,*)
(* a suffix of one, or the space that separates two names.                 *)
(***************************************************************************)
EGL_EXT_platform_base == <<"EGL_EXT_platform_base">>
EGL_MESA_platform_surfaceless == <<"EGL_MESA_platform_surfaceless">>
EGL_KHR_surfaceless_context == <<"EGL_KHR_surfaceless_context">>
EGL_KHR_no_config_context == <<"EGL_KHR_no_config_context">>
EGL_EXT_image_dma_buf_import == <<"EGL_EXT_image_dma_buf_import">>
EGL_EXT_image_dma_buf_import_modifiers == <<"EGL_EXT_image_dma_buf_import", "_modifiers">>

\* The names of a list separated by single spaces, as eglQueryString returns them.
RECURSIVE Join(_)
Join(names) ==
    IF names = <<>> THEN <<>>
    ELSE IF Len(names) = 1 THEN names[1]
    ELSE names[1] \o <<" ">> \o Join(Tail(names))

\* What eglQueryString(EGL_NO_DISPLAY, EGL_EXTENSIONS) may return.
ClientExtStrings ==
    {nullptr, Join(<<EGL_EXT_platform_base>>),
     Join(<<EGL_EXT_platform_base, EGL_MESA_platform_surfaceless>>)}

\* What eglQueryString(display, EGL_EXTENSIONS) may return.
DisplayExtStrings ==
    {nullptr,
     Join(<<EGL_KHR_surfaceless_context, EGL_KHR_no_config_context, EGL_EXT_image_dma_buf_import>>),
     Join(<<EGL_KHR_no_config_context, EGL_EXT_image_dma_buf_import>>),
     Join(<<EGL_KHR_surfaceless_context, EGL_EXT_image_dma_buf_import>>),
     Join(<<EGL_KHR_surfaceless_context, EGL_KHR_no_config_context>>),
     Join(<<EGL_EXT_image_dma_buf_import, EGL_KHR_no_config_context, EGL_KHR_surfaceless_context,
            EGL_EXT_image_dma_buf_import_modifiers>>),
     Join(<<EGL_KHR_surfaceless_context, EGL_KHR_no_config_context,
            EGL_EXT_image_dma_buf_import_modifiers>>)}

\* haystack.find(needle) != npos: needle occurs in haystack as a substring.
VerifyExtension(haystack, needle) ==
    \E i \in 1..(Len(haystack) - Len(needle) + 1) :
        SubSeq(haystack, i, i + Len(needle) - 1) = needle

(***************************************************************************)
(* EglContext.                                                             *)
(***************************************************************************)
\* A Defer that terminates the display whatever it holds.
deferred_egl_terminate_always(display) == <<Call("eglTerminate", "display", TRUE)>>

\* Defer deferred_egl_terminate: terminates the display unless the constructor
\* has moved it into display_ (display == EGL_NO_DISPLAY by then).
deferred_egl_terminate(display) ==
    IF display # "EGL_NO_DISPLAY" THEN <<Call("eglTerminate", "display", TRUE)>> ELSE <<>>

EglFailures == {"none", "eglGetPlatformDisplay", "eglInitialize", "eglBindAPI", "eglCreateContext"}

\* A constructor that leaves the check of EGL_KHR_no_config_context out.
EglContext_ctor_display_unchecked(env) ==
    LET c1 == <<Call("eglInitialize", "display", env.fail # "eglInitialize")>>
        c2 == Append(c1, Call("eglQueryString", "display", env.displayExt # nullptr))
        c3 == Append(c2, Call("eglBindAPI", "EGL_OPENGL_ES_API", env.fail # "eglBindAPI"))
        c4 == Append(c3, Call("eglCreateContext", "context", env.fail # "eglCreateContext"))
    IN  IF env.fail = "eglInitialize" THEN Raised("Failed to initialize egl display", c1)
        ELSE IF env.displayExt = nullptr
        THEN Raised("Failed to query platform egl extensions", c2)
        ELSE IF ~VerifyExtension(env.displayExt, EGL_KHR_surfaceless_context)
        THEN Raised("Required extenstion EGL_KHR_surfaceless_context is not supported", c2)
        ELSE IF ~VerifyExtension(env.displayExt, EGL_EXT_image_dma_buf_import)
        THEN Raised("Required extenstion EGL_EXT_image_dma_buf_import is not supported", c2)
        ELSE IF env.fail = "eglBindAPI" THEN Raised("Failed to bind egl api", c3)
        ELSE IF env.fail = "eglCreateContext" THEN Raised("Failed to create egl context", c4)
        ELSE Built(c4)

\* The constructor from eglInitialize on, the display in hand.
\* env: [clientExt, displayExt, fail], what the native layer answers.
EglContext_ctor_display(env) ==
    LET c1 == <<Call("eglInitialize", "display", env.fail # "eglInitialize")>>
        c2 == Append(c1, Call("eglQueryString", "display", env.displayExt # nullptr))
        c3 == Append(c2, Call("eglBindAPI", "EGL_OPENGL_ES_API", env.fail # "eglBindAPI"))
        c4 == Append(c3, Call("eglCreateContext", "context", env.fail # "eglCreateContext"))
    IN  IF env.fail = "eglInitialize" THEN Raised("Failed to initialize egl display", c1)
        ELSE IF env.displayExt = nullptr
        THEN Raised("Failed to query platform egl extensions", c2)
        ELSE IF ~VerifyExtension(env.displayExt, EGL_KHR_surfaceless_context)
        THEN Raised("Required extenstion EGL_KHR_surfaceless_context is not supported", c2)
        ELSE IF ~VerifyExtension(env.displayExt, EGL_KHR_no_config_context)
        THEN Raised("Required extenstion EGL_KHR_no_config_context is not supported", c2)
        ELSE IF ~VerifyExtension(env.displayExt, EGL_EXT_image_dma_buf_import)
        THEN Raised("Required extenstion EGL_EXT_image_dma_buf_import is not supported", c2)
        ELSE IF env.fail = "eglBindAPI" THEN Raised("Failed to bind egl api", c3)
        ELSE IF env.fail = "eglCreateContext" THEN Raised("Failed to create egl context", c4)
        ELSE Built(c4)

EglContext_ctor(env) ==
    LET c1 == <<Call("eglQueryString", "EGL_NO_DISPLAY", env.clientExt # nullptr)>>
        c2 == Append(c1, Call("eglGetPlatformDisplay", "display", env.fail # "eglGetPlatformDisplay"))
    IN  IF env.clientExt = nullptr
        THEN Raised("Failed to query platformless egl extensions", c1)
        ELSE IF ~VerifyExtension(env.clientExt, EGL_MESA_platform_surfaceless)
        THEN Raised("Required extenstion EGL_MESA_platform_surfaceless is not supported", c1)
        ELSE IF env.fail = "eglGetPlatformDisplay"
        THEN Raised("Failed to get platform display", c2)
        ELSE LET rest == EglContext_ctor_display(env) IN
             IF rest.ok
             THEN Built(c2 \o rest.calls \o deferred_egl_terminate("EGL_NO_DISPLAY"))
             ELSE Raised(rest.what, c2 \o rest.calls \o deferred_egl_terminate("display"))

\* A destructor that gives up when eglDestroyContext fails.
EglContext_dtor_early(destroyOK, terminateOK) ==
    IF destroyOK
    THEN <<Call("eglDestroyContext", "context", TRUE), Call("eglTerminate", "display", terminateOK)>>
    ELSE <<Call("eglDestroyContext", "context", FALSE)>>

\* ~EglContext, with what the two native calls report.
EglContext_dtor(destroyOK, terminateOK) ==
    <<Call("eglDestroyContext", "context", destroyOK), Call("eglTerminate", "display", terminateOK)>>

\* A MakeCurrent that binds nothing.
MakeCurrent_unbound(ok) == Built(<<>>)

\* EglContext::MakeCurrent and EglContext::ResetCurrent, with what eglMakeCurrent reports.
MakeCurrent(ok) ==
    IF ok THEN Built(<<Call("eglMakeCurrent", "context", TRUE)>>)
    ELSE Raised("Failed to make EGL context current", <<Call("eglMakeCurrent", "context", FALSE)>>)

ResetCurrent(ok) ==
    IF ok THEN Built(<<Call("eglMakeCurrent", "EGL_NO_CONTEXT", TRUE)>>)
    ELSE Raised("Failed to reset current EGL context", <<Call("eglMakeCurrent", "EGL_NO_CONTEXT", FALSE)>>)

\* EglContext::Sync, with what eglCreateSync and eglClientWaitSync report.
Sync(createOK, waitOK) ==
    IF ~createOK THEN Raised("Failed to create egl fence sync", <<Call("eglCreateSync", "sync", FALSE)>>)
    ELSE Built(<<Call("eglCreateSync", "sync", TRUE), Call("eglClientWaitSync", "sync", waitOK),
                 Call("eglDestroySync", "sync", TRUE)>>)

(***************************************************************************)
(* Imports: GbmBuffer::CreateEglImage and CreateGlTexture.                 *)
(***************************************************************************)
ImageOf(name) == IF name = "rgbx" THEN "image_rgbx" ELSE "image_nv12"
TextureOf(name) == IF name = "rgbx" THEN "texture_rgbx" ELSE "texture_nv12"

\* A descriptor whose pitch counts texels instead of bytes.
attrib_list_texels(name, buf) ==
    <<<<"EGL_WIDTH", buf.width>>, <<"EGL_HEIGHT", buf.height>>,
      <<"EGL_LINUX_DRM_FOURCC_EXT", "DRM_FORMAT_ARGB8888">>,
      <<"EGL_DMA_BUF_PLANE0_FD_EXT", FdOf(name)>>,
      <<"EGL_DMA_BUF_PLANE0_OFFSET_EXT", 0>>,
      <<"EGL_DMA_BUF_PLANE0_PITCH_EXT", buf.width>>>>

\* The attribute list of CreateEglImage for a buffer with members width_, height_;
\* the fd is the buffer's own.
attrib_list(name, buf) ==
    <<<<"EGL_WIDTH", buf.width>>, <<"EGL_HEIGHT", buf.height>>,
      <<"EGL_LINUX_DRM_FOURCC_EXT", "DRM_FORMAT_ARGB8888">>,
      <<"EGL_DMA_BUF_PLANE0_FD_EXT", FdOf(name)>>,
      <<"EGL_DMA_BUF_PLANE0_OFFSET_EXT", 0>>,
      <<"EGL_DMA_BUF_PLANE0_PITCH_EXT", buf.width * 4>>>>

\* ok: whether eglCreateImage accepts the descriptor.  The result carries the
\* attribute list passed and the handle returned ("" when the call threw).
CreateEglImage(name, buf, ok) ==
    IF ok
    THEN [ok |-> TRUE, what |-> "", calls |-> <<Call("eglCreateImage", ImageOf(name), TRUE)>>,
          attrib_list |-> attrib_list(name, buf), result |-> ImageOf(name)]
    ELSE [ok |-> FALSE, what |-> "Failed to create egl image",
          calls |-> <<Call("eglCreateImage", ImageOf(name), FALSE)>>,
          attrib_list |-> attrib_list(name, buf), result |-> ""]

\* The failures CreateGlTexture can meet; the first three only while the static
\* glEGLImageTargetTexture2DOES is still null.
TextureFailures(resolved) ==
    IF resolved THEN {"none", "glGetError"}
    ELSE {"none", "glGetString", "GL_OES_EGL_image", "eglGetProcAddress", "glGetError"}

\* A lookup made on every call.
ResolveImageTarget_eager(resolved, fail) ==
    IF fail = "glGetString"
    THEN Raised("Failed to get gl extensions", <<Call("glGetString", "GL_EXTENSIONS", FALSE)>>)
    ELSE Built(<<Call("glGetString", "GL_EXTENSIONS", TRUE),
                 Call("eglGetProcAddress", "glEGLImageTargetTexture2DOES", TRUE)>>)

\* The lazy lookup of glEGLImageTargetTexture2DOES.
ResolveImageTarget(resolved, fail) ==
    IF resolved THEN Built(<<>>)
    ELSE IF fail = "glGetString"
    THEN Raised("Failed to get gl extensions", <<Call("glGetString", "GL_EXTENSIONS", FALSE)>>)
    ELSE IF fail = "GL_OES_EGL_image"
    THEN Raised("Required extenstion GL_OES_EGL_image is not supported",
                <<Call("glGetString", "GL_EXTENSIONS", TRUE)>>)
    ELSE IF fail = "eglGetProcAddress"
    THEN Raised("Failed to import glEGLImageTargetTexture2DOES",
                <<Call("glGetString", "GL_EXTENSIONS", TRUE),
                  Call("eglGetProcAddress", "glEGLImageTargetTexture2DOES", FALSE)>>)
    ELSE Built(<<Call("glGetString", "GL_EXTENSIONS", TRUE),
                 Call("eglGetProcAddress", "glEGLImageTargetTexture2DOES", TRUE)>>)

\* The result carries resolved, the static pointer's state after the call.
CreateGlTexture(name, resolved, fail) ==
    LET lookup == ResolveImageTarget(resolved, fail)
        gen == lookup.calls \o <<Call("glGenTextures", TextureOf(name), TRUE),
                                 Call("glEGLImageTargetTexture2DOES", TextureOf(name), fail # "glGetError")>>
    IN  IF ~lookup.ok THEN [ok |-> FALSE, what |-> lookup.what, calls |-> lookup.calls, resolved |-> resolved]
        ELSE IF fail = "glGetError"
        THEN [ok |-> FALSE, what |-> "Failed to create image texture",
              calls |-> Append(gen, Call("glDeleteTextures", TextureOf(name), TRUE)), resolved |-> TRUE]
        ELSE [ok |-> TRUE, what |-> "", calls |-> gen, resolved |-> TRUE]

(***************************************************************************)
(* Error messages.  A std::string built by concatenation is the sequence   *)
(* of its pieces; an error code is its numeric value.                      *)
(***************************************************************************)
kEglErrors ==
    <<<<12288, "EGL_SUCCESS">>, <<12289, "EGL_NOT_INITIALIZED">>, <<12290, "EGL_BAD_ACCESS">>,
      <<12291, "EGL_BAD_ALLOC">>, <<12292, "EGL_BAD_ATTRIBUTE">>, <<12293, "EGL_BAD_CONFIG">>,
      <<12294, "EGL_BAD_CONTEXT">>, <<12295, "EGL_BAD_CURRENT_SURFACE">>,
      <<12296, "EGL_BAD_DISPLAY">>, <<12297, "EGL_BAD_MATCH">>,
      <<12298, "EGL_BAD_NATIVE_PIXMAP">>, <<12299, "EGL_BAD_NATIVE_WINDOW">>,
      <<12300, "EGL_BAD_PARAMETER">>, <<12301, "EGL_BAD_SURFACE">>, <<12302, "EGL_CONTEXT_LOST">>>>

\* A table without the framebuffer error.
kGlErrors_short ==
    <<<<0, "GL_NO_ERROR">>, <<1280, "GL_INVALID_ENUM">>, <<1281, "GL_INVALID_VALUE">>,
      <<1282, "GL_INVALID_OPERATION">>, <<1285, "GL_OUT_OF_MEMORY">>>>

kGlErrors ==
    <<<<0, "GL_NO_ERROR">>, <<1280, "GL_INVALID_ENUM">>, <<1281, "GL_INVALID_VALUE">>,
      <<1282, "GL_INVALID_OPERATION">>, <<1285, "GL_OUT_OF_MEMORY">>,
      <<1286, "GL_INVALID_FRAMEBUFFER_OPERATION">>>>

\* The name of the first entry of the list with the key, "???" when there is none.
LookupError(list, key) ==
    LET hits == {i \in 1..Len(list) : list[i][1] = key}
    IN  IF hits = {} THEN "???"
        ELSE list[CHOOSE i \in hits : \A j \in hits : i <= j][2]

WrapEglError(message, error) == <<message, ": ", LookupError(kEglErrors, error)>>

WrapGlError(message, error) == <<message, ": ", LookupError(kGlErrors, error)>>

\* The messages the program wraps an EGL error code into.
EglMessages ==
    {"Failed to create egl image", "Failed to query platformless egl extensions",
     "Failed to get platform display", "Failed to initialize egl display",
     "Failed to query platform egl extensions", "Failed to bind egl api",
     "Failed to create egl context", "Failed to make EGL context current",
     "Failed to reset current EGL context", "Failed to create egl fence sync"}

\* The messages the program wraps a GL error code into.
GlMessages ==
    {"Failed to compile shader", "Failed to link program", "Failed to create image texture",
     "Failed to create shader", "Failed to create program", "Failed to dispatch compute",
     "Failed to allocate framebuffer name", "Failed to allocate buffer object name",
     "Failed to initialize vbo", "Failed to get img_input location", "Failed to set img_input",
     "Failed to get img_input_size location", "Conversion failed"}

\* What eglGetError can return: the error codes of EGL 1.5 with their names.
EglErrorCodes ==
    {[code |-> 12288 + n[1], name |-> n[2]] : n \in
        {<<0, "EGL_SUCCESS">>, <<1, "EGL_NOT_INITIALIZED">>, <<2, "EGL_BAD_ACCESS">>,
         <<3, "EGL_BAD_ALLOC">>, <<4, "EGL_BAD_ATTRIBUTE">>, <<5, "EGL_BAD_CONFIG">>,
         <<6, "EGL_BAD_CONTEXT">>, <<7, "EGL_BAD_CURRENT_SURFACE">>, <<8, "EGL_BAD_DISPLAY">>,
         <<9, "EGL_BAD_MATCH">>, <<10, "EGL_BAD_NATIVE_PIXMAP">>, <<11, "EGL_BAD_NATIVE_WINDOW">>,
         <<12, "EGL_BAD_PARAMETER">>, <<13, "EGL_BAD_SURFACE">>, <<14, "EGL_CONTEXT_LOST">>}}

\* What glGetError can return in an OpenGL ES 3.1 or 2.0 context.
GlErrorCodes ==
    {[code |-> 0, name |-> "GL_NO_ERROR"], [code |-> 1280, name |-> "GL_INVALID_ENUM"],
     [code |-> 1281, name |-> "GL_INVALID_VALUE"], [code |-> 1282, name |-> "GL_INVALID_OPERATION"],
     [code |-> 1285, name |-> "GL_OUT_OF_MEMORY"],
     [code |-> 1286, name |-> "GL_INVALID_FRAMEBUFFER_OPERATION"]}

(***************************************************************************)
(* The conversion kernels.                                                 *)
(***************************************************************************)
ProgramFailures ==
    {"none", "glCreateShader", "glCompileShader", "GL_COMPILE_STATUS", "glCreateProgram",
     "glLinkProgram", "GL_LINK_STATUS"}

\* The text glGetShaderInfoLog or glGetProgramInfoLog returns for an object.
InfoLog(obj) == IF obj = "shader" THEN "shader info log" ELSE "program info log"

\* CheckBuildable<T>(buildable) after the build call: glGetError reports an error
\* (error), or the build status is not GL_TRUE (status), or neither.
CheckBuildable(getter, buildable, message, error, status) ==
    IF error THEN Raised(message, <<>>)
    ELSE IF status THEN Raised(InfoLog(buildable), <<Call(getter, buildable, FALSE)>>)
    ELSE Built(<<Call(getter, buildable, TRUE)>>)

\* A CreateGlProgram whose program outlives a failed link.
CreateGlProgram_leak(fail) ==
    LET delShader == <<Call("glDeleteShader", "shader", TRUE)>>
        c == <<Call("glCreateShader", "shader", fail # "glCreateShader"),
               Call("glCompileShader", "shader", fail # "glCompileShader"),
               Call("glGetShaderiv", "shader", fail # "GL_COMPILE_STATUS"),
               Call("glCreateProgram", "program", fail # "glCreateProgram"),
               Call("glLinkProgram", "program", fail # "glLinkProgram"),
               Call("glGetProgramiv", "program", fail # "GL_LINK_STATUS")>>
    IN  IF fail = "none" THEN Built(c \o delShader)
        ELSE Raised(IF fail = "GL_LINK_STATUS" THEN InfoLog("program") ELSE "Failed to build program",
                    c \o delShader)

\* CreateGlProgram(source): the compute program.  The two Defers run in reverse
\* order of construction: the program's (a no-op once the program is returned),
\* then the shader's.
CreateGlProgram(fail) ==
    LET delShader == <<Call("glDeleteShader", "shader", TRUE)>>
        delProgram == <<Call("glDeleteProgram", "program", TRUE)>>
        compiled == CheckBuildable("glGetShaderiv", "shader", "Failed to compile shader",
                                   fail = "glCompileShader", fail = "GL_COMPILE_STATUS")
        linked == CheckBuildable("glGetProgramiv", "program", "Failed to link program",
                                 fail = "glLinkProgram", fail = "GL_LINK_STATUS")
        c1 == <<Call("glCreateShader", "shader", fail # "glCreateShader")>>
        c2 == Append(c1, Call("glCompileShader", "shader", fail # "glCompileShader")) \o compiled.calls
        c3 == Append(c2, Call("glCreateProgram", "program", fail # "glCreateProgram"))
        c4 == Append(c3, Call("glLinkProgram", "program", fail # "glLinkProgram")) \o linked.calls
    IN  IF fail = "glCreateShader" THEN Raised("Failed to create shader", c1)
        ELSE IF ~compiled.ok THEN Raised(compiled.what, c2 \o delShader)
        ELSE IF fail = "glCreateProgram" THEN Raised("Failed to create program", c3 \o delShader)
        ELSE IF ~linked.ok THEN Raised(linked.what, c4 \o delProgram \o delShader)
        ELSE Built(c4 \o delShader)

FramesconvES31_ctor(fail) == CreateGlProgram(fail)

FramesconvES31_dtor == <<Call("glDeleteProgram", "program", TRUE)>>

ES20Failures ==
    {"none", "glGenFramebuffers", "glGenBuffers", "glBufferData", "CreateGlProgram",
     "img_input", "glUniform1i", "img_input_size"}

\* CreateGlProgram(vertex, fragment) of the raster variant: a program or an error.
CreateGlProgram2(ok) ==
    IF ok THEN Built(<<Call("glCreateProgram", "program", TRUE)>>)
    ELSE Raised("Failed to build program", <<>>)

\* A constructor whose Defers stay armed on success.
FramesconvES20_ctor_armed(fail) ==
    LET c == <<Call("glGenFramebuffers", "framebuffer", fail # "glGenFramebuffers"),
               Call("glGenBuffers", "buffer_object", fail # "glGenBuffers"),
               Call("glBufferData", "buffer_object", fail # "glBufferData"),
               Call("glCreateProgram", "program", fail # "CreateGlProgram"),
               Call("glDeleteProgram", "program", TRUE),
               Call("glDeleteBuffers", "buffer_object", TRUE),
               Call("glDeleteFramebuffers", "framebuffer", TRUE)>>
    IN  IF fail = "none" THEN Built(c) ELSE Raised("Failed to construct", c)

FramesconvES20_ctor(fail) ==
    LET delFb == <<Call("glDeleteFramebuffers", "framebuffer", TRUE)>>
        delBo == <<Call("glDeleteBuffers", "buffer_object", TRUE)>>
        delPr == <<Call("glDeleteProgram", "program", TRUE)>>
        prog == CreateGlProgram2(fail # "CreateGlProgram")
        c1 == <<Call("glGenFramebuffers", "framebuffer", fail # "glGenFramebuffers")>>
        c2 == Append(c1, Call("glGenBuffers", "buffer_object", fail # "glGenBuffers"))
        c3 == Append(c2, Call("glBufferData", "buffer_object", fail # "glBufferData"))
        c4 == c3 \o prog.calls
        c5 == Append(c4, Call("glGetUniformLocation", "img_input", fail # "img_input"))
        c6 == Append(c5, Call("glUniform1i", "img_input", fail # "glUniform1i"))
        c7 == Append(c6, Call("glGetUniformLocation", "img_input_size", fail # "img_input_size"))
    IN  IF fail = "glGenFramebuffers" THEN Raised("Failed to allocate framebuffer name", c1)
        ELSE IF fail = "glGenBuffers"
        THEN Raised("Failed to allocate buffer object name", c2 \o delFb)
        ELSE IF fail = "glBufferData" THEN Raised("Failed to initialize vbo", c3 \o delBo \o delFb)
        ELSE IF ~prog.ok THEN Raised(prog.what, c4 \o delBo \o delFb)
        ELSE IF fail = "img_input"
        THEN Raised("Failed to get img_input location", c5 \o delPr \o delBo \o delFb)
        ELSE IF fail = "glUniform1i"
        THEN Raised("Failed to set img_input", c6 \o delPr \o delBo \o delFb)
        ELSE IF fail = "img_input_size"
        THEN Raised("Failed to get img_input_size location", c7 \o delPr \o delBo \o delFb)
        ELSE Built(c7)

FramesconvES20_dtor ==
    <<Call("glDeleteProgram", "program", TRUE), Call("glDeleteBuffers", "buffer_object", TRUE),
      Call("glDeleteFramebuffers", "framebuffer", TRUE)>>

\* A Convert that dispatches and returns without a barrier.
FramesconvES31_Convert_unfenced(ok) ==
    LET c == <<Call("glUseProgram", "program", TRUE),
               Call("glBindImageTexture", "texture_rgbx", TRUE),
               Call("glBindImageTexture", "texture_nv12", TRUE),
               Call("glDispatchCompute", "program", ok)>>
    IN  IF ok THEN Built(c) ELSE Raised("Failed to dispatch compute", c)

\* FramesconvES31::Convert, with whether glGetError reports an error after the barrier.
FramesconvES31_Convert(ok) ==
    LET c == <<Call("glUseProgram", "program", TRUE),
               Call("glBindImageTexture", "texture_rgbx", TRUE),
               Call("glBindImageTexture", "texture_nv12", TRUE),
               Call("glDispatchCompute", "program", ok),
               Call("glMemoryBarrier", "GL_SHADER_IMAGE_ACCESS_BARRIER_BIT", TRUE)>>
    IN  IF ok THEN Built(c) ELSE Raised("Failed to dispatch compute", c)

\* A Convert that draws whatever the framebuffer status is.
FramesconvES20_Convert_unchecked(fail) ==
    LET c == <<Call("glBindFramebuffer", "framebuffer", TRUE),
               Call("glFramebufferTexture2D", "texture_nv12", TRUE),
               Call("glCheckFramebufferStatus", "framebuffer", fail # "incomplete"),
               Call("glDrawArrays", "framebuffer", fail # "glGetError"),
               Call("glBindFramebuffer", "0", TRUE)>>
    IN  IF fail = "none" THEN Built(c) ELSE Raised("Conversion failed", c)

ConvertFailures == {"none", "incomplete", "glGetError"}

\* FramesconvES20::Convert: the framebuffer may be incomplete, the draw may fail.
\* On the incomplete path the code calls glBindBuffer(GL_FRAMEBUFFER, 0); elsewhere a
\* bind call is logged with the name it binds.
FramesconvES20_Convert(fail) ==
    LET c1 == <<Call("glBindFramebuffer", "framebuffer", TRUE),
                Call("glFramebufferTexture2D", "texture_nv12", TRUE),
                Call("glCheckFramebufferStatus", "framebuffer", fail # "incomplete")>>
        c2 == c1 \o <<Call("glUseProgram", "program", TRUE),
                      Call("glBindTexture", "texture_rgbx", TRUE),
                      Call("glBindBuffer", "buffer_object", TRUE),
                      Call("glDrawArrays", "framebuffer", fail # "glGetError"),
                      Call("glBindBuffer", "0", TRUE),
                      Call("glBindTexture", "0", TRUE),
                      Call("glUseProgram", "0", TRUE),
                      Call("glBindFramebuffer", "0", TRUE)>>
    IN  IF fail = "incomplete"
        THEN Raised("Framebuffer is incomplete", Append(c1, Call("glBindBuffer", "GL_FRAMEBUFFER", TRUE)))
        ELSE IF fail = "glGetError" THEN Raised("Conversion failed", c2)
        ELSE Built(c2)

(***************************************************************************)
(* The GL binding state a log of calls leaves behind.                      *)
(***************************************************************************)
\* The name the last call of fn bound, 0 when there was none.  GL_FRAMEBUFFER is
\* not a buffer target: such a glBindBuffer binds nothing.
BoundBy(log, fn) ==
    LET binds == {k \in 1..Len(log) : log[k].fn = fn /\ log[k].obj # "GL_FRAMEBUFFER"}
    IN  IF binds = {} THEN "0" ELSE log[CHOOSE k \in binds : \A j \in binds : j <= k].obj

\* The error glGetError would return next: a glBindBuffer with a target that is no
\* buffer target raises GL_INVALID_ENUM, which stays until glGetError is called;
\* Convert calls glGetError once, after the draw.
PendingError(log) ==
    IF \E k \in 1..Len(log) :
        /\ log[k].fn = "glBindBuffer" /\ log[k].obj = "GL_FRAMEBUFFER"
        /\ \A j \in (k + 1)..Len(log) : log[j].fn # "glDrawArrays"
    THEN "GL_INVALID_ENUM" ELSE "GL_NO_ERROR"

GlState(log) ==
    [framebuffer |-> BoundBy(log, "glBindFramebuffer"),
     array_buffer |-> BoundBy(log, "glBindBuffer"),
     texture_2d |-> BoundBy(log, "glBindTexture"),
     program |-> BoundBy(log, "glUseProgram"),
     error |-> PendingError(log)]

(***************************************************************************)
(* Buffer memory.  A buffer of w x h texels is w * h * 4 bytes, row after  *)
(* row with pitch w * 4 (the pitch CreateEglImage declares).  A vec4 is a  *)
(* record r, g, b, a; a float is an exact fraction [num, den] in units of  *)
(* 1/255, so that a texel byte B reads as B and a store rounds to nearest. *)
(***************************************************************************)
TexelOffset(w, x, y) == 4 * (y * w + x)

Inside(geo, x, y) == x >= 0 /\ x < geo.width /\ y >= 0 /\ y < geo.height

Q(num, den) == [num |-> num, den |-> den]

\* Conversion of a float to an 8-bit normalized byte: clamp, round to nearest.
Unorm8(q) ==
    LET n == (2 * q.num + q.den) \div (2 * q.den)
    IN  IF n < 0 THEN 0 ELSE IF n > 255 THEN 255 ELSE n

\* Access through an image unit bound as GL_RGBA8 (layout rgba8): the four bytes
\* of a texel are r, g, b, a in memory order.  A load outside the image yields
\* zero, a store outside it is dropped.
imageLoad(mem, geo, x, y) ==
    IF Inside(geo, x, y)
    THEN LET o == TexelOffset(geo.width, x, y)
         IN  [r |-> mem[o + 1], g |-> mem[o + 2], b |-> mem[o + 3], a |-> mem[o + 4]]
    ELSE [r |-> 0, g |-> 0, b |-> 0, a |-> 0]

imageStoreBytes(v) == <<Unorm8(v.r), Unorm8(v.g), Unorm8(v.b), Unorm8(v.a)>>

\* Access to a DRM_FORMAT_ARGB8888 texture by sampling and as a render target:
\* the little-endian word A:R:G:B puts b, g, r, a in memory order.
texelFetchARGB(mem, geo, x, y) ==
    LET o == TexelOffset(geo.width, x, y)
    IN  [r |-> mem[o + 3], g |-> mem[o + 2], b |-> mem[o + 1], a |-> mem[o + 4]]

fragmentBytes(v) == <<Unorm8(v.b), Unorm8(v.g), Unorm8(v.r), Unorm8(v.a)>>

(***************************************************************************)
(* The compute kernel (ES 3.1).                                            *)
(***************************************************************************)
local_size_x == 2

\* A workgroup one invocation high.
local_size_y_flat == 2 - 1

local_size_y == 2

\* A dispatch of one workgroup per source pixel pair.
DispatchSize_dense(width, height) == <<width \div 4, height \div 2, 1>>

\* glDispatchCompute(width / 8, height / 4, 1)
DispatchSize(width, height) == <<width \div 8, height \div 4, 1>>

\* gl_GlobalInvocationID of every invocation of the dispatch.
GlobalInvocations(width, height) ==
    LET n == DispatchSize(width, height)
    IN  {<<x, y>> : x \in 0..(n[1] * local_size_x - 1), y \in 0..(n[2] * local_size_y - 1)}

src_offset == <<<<0, 0>>, <<1, 0>>, <<2, 0>>, <<3, 0>>, <<0, 1>>, <<1, 1>>, <<2, 1>>, <<3, 1>>>>

\* The coordinate of the k-th imageLoad of invocation id.
LoadCoord(id, k) == <<id[1] * 4 + src_offset[k][1], id[2] * 2 + src_offset[k][2]>>

\* A conversion that takes the loaded texel as b, g, r, a.
rgb2yuv_bgr(rgb) ==
    LET y == 2126 * rgb.b + 7152 * rgb.g + 722 * rgb.r
    IN  [y |-> Q(y, 10000),
         u |-> Q(2 * (10000 * rgb.r - y) + 255 * 18556, 2 * 18556),
         v |-> Q(2 * (10000 * rgb.b - y) + 255 * 15748, 2 * 15748)]

\* rgb2yuv: BT.709 full range; y, u + 0.5 and v + 0.5.
rgb2yuv(rgb) ==
    LET y == 2126 * rgb.r + 7152 * rgb.g + 722 * rgb.b
    IN  [y |-> Q(y, 10000),
         u |-> Q(2 * (10000 * rgb.b - y) + 255 * 18556, 2 * 18556),
         v |-> Q(2 * (10000 * rgb.r - y) + 255 * 15748, 2 * 15748)]

\* (a + b + c + d) / 4.f of four floats with one denominator.
Mean4(a, b, c, d) == Q(a.num + b.num + c.num + d.num, 4 * a.den)

\* The three stores of invocation id: <<x, y, vec4>>.
\* The coordinates of the three imageStores of one invocation: the two luma
\* rows (lines 137 and 139) and the chroma row (line 148).
StoreCoords(geo, id) ==
    <<<<id[1], id[2] * 2>>, <<id[1], id[2] * 2 + 1>>, <<id[1], id[2] + geo.height>>>>

ComputeStores(mem, geo, id) ==
    LET yuv == [k \in 1..8 |-> rgb2yuv(imageLoad(mem, geo, LoadCoord(id, k)[1], LoadCoord(id, k)[2]))]
    IN  {<<StoreCoords(geo, id)[1][1], StoreCoords(geo, id)[1][2],
           [r |-> yuv[1].y, g |-> yuv[2].y, b |-> yuv[3].y, a |-> yuv[4].y]>>,
         <<StoreCoords(geo, id)[2][1], StoreCoords(geo, id)[2][2],
           [r |-> yuv[5].y, g |-> yuv[6].y, b |-> yuv[7].y, a |-> yuv[8].y]>>,
         <<StoreCoords(geo, id)[3][1], StoreCoords(geo, id)[3][2],
           [r |-> Mean4(yuv[1].u, yuv[2].u, yuv[5].u, yuv[6].u),
            g |-> Mean4(yuv[1].v, yuv[2].v, yuv[5].v, yuv[6].v),
            b |-> Mean4(yuv[3].u, yuv[4].u, yuv[7].u, yuv[8].u),
            a |-> Mean4(yuv[3].v, yuv[4].v, yuv[7].v, yuv[8].v)]>>}

\* The destination memory after the dispatch: each texel holds what the invocation
\* that stores to it wrote, or its old bytes when none does.
ComputeKernel(mem, geo, old) ==
    LET out == [width |-> geo.width \div 4, height |-> (geo.height * 3) \div 2]
        ids == GlobalInvocations(geo.width, geo.height)
        Texel(x, y) ==
            LET id == <<x, IF y < geo.height THEN y \div 2 ELSE y - geo.height>>
                o == TexelOffset(out.width, x, y)
            IN  IF id \in ids
                THEN LET st == CHOOSE s \in ComputeStores(mem, geo, id) : s[1] = x /\ s[2] = y
                     IN  imageStoreBytes(st[3])
                ELSE <<old[o + 1], old[o + 2], old[o + 3], old[o + 4]>>
        texels == [t \in 0..(out.width * out.height - 1) |-> Texel(t % out.width, t \div out.width)]
    IN  [o \in 1..(out.width * out.height * 4) |-> texels[(o - 1) \div 4][((o - 1) % 4) + 1]]

(***************************************************************************)
(* The render kernel (ES 2.0).  One fragment per texel of the NV12 texture *)
(* attached to the framebuffer; the quad spans the viewport, so the        *)
(* fragment at (px, py) interpolates dst_upper_left at its centre,         *)
(* ((px + 1/2) / viewport width, (py + 1/2) / viewport height).  Texel     *)
(* coordinates are kept doubled, so that centres are odd and the edges     *)
(* between texels are even.                                                *)
(***************************************************************************)
\* glViewport(0, 0, width, height * 3 / 2)
Viewport(width, height) == <<width, (height * 3) \div 2>>

\* GL_NEAREST with GL_CLAMP_TO_EDGE on a doubled coordinate.  On an edge the
\* texel is the one after it when the arithmetic is exact, and the one before it
\* when the interpolated coordinate falls short (tie = 1).
Nearest(c2, size, tie) ==
    LET i == IF c2 % 2 = 0 THEN c2 \div 2 - tie ELSE (c2 - 1) \div 2
    IN  IF i < 0 THEN 0 ELSE IF i > size - 1 THEN size - 1 ELSE i

texture2D(mem, geo, x2, y2, tie) ==
    texelFetchARGB(mem, geo, Nearest(x2, geo.width, tie[1]), Nearest(y2, geo.height, tie[2]))

\* A swizzle that reverses all four channels.
abgr(v) == [r |-> v.a, g |-> v.b, b |-> v.g, a |-> v.r]

\* The swizzle .bgra.
bgra(v) == [r |-> v.b, g |-> v.g, b |-> v.r, a |-> v.a]

\* dst_upper_left.y < 2.f / 3.f
IsLumaFragment(geo, py) == 3 * (2 * py + 1) < 4 * Viewport(geo.width, geo.height)[2]

\* Doubled texel x of sample k (0..3): dst_upper_left.x * 4 + k * pix_width.
SampleX2(geo, px, k) ==
    (4 * (2 * px + 1) * geo.width) \div Viewport(geo.width, geo.height)[1] + 2 * k

\* Doubled texel y of handle_luma: dst_upper_left.y / 2 * 3.
LumaY2(geo, py) == (3 * (2 * py + 1) * geo.height) \div (2 * Viewport(geo.width, geo.height)[2])

\* Doubled texel y of handle_chroma, row j (0..1):
\* (dst_upper_left.y - 2 / 3) * 3 + j * pix_height.
ChromaY2(geo, py, j) ==
    (3 * (2 * py + 1) * geo.height) \div Viewport(geo.width, geo.height)[2]
        - 4 * geo.height + 2 * j

\* A luma that takes the sampled components in their own order.
rgb2luma_unswapped(rgb) == Q(2126 * rgb.r + 7152 * rgb.g + 722 * rgb.b, 10000)

rgb2luma(rgb) == Q(2126 * rgb.b + 7152 * rgb.g + 722 * rgb.r, 10000)

rgb2chroma(rgb) ==
    LET y == 2126 * rgb.b + 7152 * rgb.g + 722 * rgb.r
    IN  [u |-> Q(2 * (10000 * rgb.r - y) + 255 * 18556, 2 * 18556),
         v |-> Q(2 * (10000 * rgb.b - y) + 255 * 15748, 2 * 15748)]

handle_luma(mem, geo, px, py, tie) ==
    LET luma == [k \in 1..4 |->
                    rgb2luma(texture2D(mem, geo, SampleX2(geo, px, k - 1), LumaY2(geo, py), tie))]
    IN  bgra([r |-> luma[1], g |-> luma[2], b |-> luma[3], a |-> luma[4]])

handle_chroma(mem, geo, px, py, tie) ==
    LET chroma == [k \in 1..8 |->
                      rgb2chroma(texture2D(mem, geo, SampleX2(geo, px, (k - 1) % 4),
                                           ChromaY2(geo, py, (k - 1) \div 4), tie))]
    IN  bgra([r |-> Mean4(chroma[1].u, chroma[2].u, chroma[5].u, chroma[6].u),
              g |-> Mean4(chroma[1].v, chroma[2].v, chroma[5].v, chroma[6].v),
              b |-> Mean4(chroma[3].u, chroma[4].u, chroma[7].u, chroma[8].u),
              a |-> Mean4(chroma[3].v, chroma[4].v, chroma[7].v, chroma[8].v)])

\* The destination memory after glDrawArrays: every texel of the framebuffer
\* that lies inside the viewport is written with gl_FragColor.
RenderKernel(mem, geo, tie) ==
    LET out == [width |-> geo.width \div 4, height |-> (geo.height * 3) \div 2]
        Texel(x, y) ==
            fragmentBytes(IF IsLumaFragment(geo, y)
                          THEN handle_luma(mem, geo, x, y, tie)
                          ELSE handle_chroma(mem, geo, x, y, tie))
        texels == [t \in 0..(out.width * out.height - 1) |-> Texel(t % out.width, t \div out.width)]
    IN  [o \in 1..(out.width * out.height * 4) |-> texels[(o - 1) \div 4][((o - 1) % 4) + 1]]

(***************************************************************************)
(* Scope exit.  main's automatic objects are destroyed in reverse order of *)
(* construction, on return and while an exception unwinds.                 *)
(***************************************************************************)
\* A scope that destroys its objects in construction order.
NextDestroyed_fifo(sc) == 1

\* The object of the scope destroyed next: the one constructed last.
NextDestroyed(sc) == Len(sc)

\* Whether a destructor returns or lets an exception escape.
Destroyed(cs) == [calls |-> cs, throws |-> FALSE]
Escaped(cs) == [calls |-> cs, throws |-> TRUE]

\* Defer deferred_reset_current: ~Defer calls context.ResetCurrent(), which throws
\* when eglMakeCurrent fails.
deferred_reset_current ==
    {IF r.ok THEN Destroyed(r.calls) ELSE Escaped(r.calls) : r \in {ResetCurrent(ok) : ok \in BOOLEAN}}

\* The destructor of a named object of main: the ways it can run.
Destructor(obj, es20) ==
    IF obj = "device" THEN {Destroyed(GbmDevice_dtor(TRUE, TRUE))}
    ELSE IF obj = "buffer_rgbx" THEN {Destroyed(GbmBuffer_dtor("rgbx", TRUE, TRUE))}
    ELSE IF obj = "buffer_nv12" THEN {Destroyed(GbmBuffer_dtor("nv12", TRUE, TRUE))}
    ELSE IF obj = "context"
    THEN {Destroyed(EglContext_dtor(d, t)) : d \in BOOLEAN, t \in BOOLEAN}
    ELSE IF obj = "deferred_reset_current" THEN deferred_reset_current
    ELSE IF obj = "deferred_egl_destroy_image_rgbx"
    THEN {Destroyed(<<Call("eglDestroyImage", "image_rgbx", TRUE)>>)}
    ELSE IF obj = "deferred_gl_delete_textures_rgbx"
    THEN {Destroyed(<<Call("glDeleteTextures", "texture_rgbx", TRUE)>>)}
    ELSE IF obj = "deferred_egl_destroy_image_nv12"
    THEN {Destroyed(<<Call("eglDestroyImage", "image_nv12", TRUE)>>)}
    ELSE IF obj = "deferred_gl_delete_textures_nv12"
    THEN {Destroyed(<<Call("glDeleteTextures", "texture_nv12", TRUE)>>)}
    ELSE IF es20 THEN {Destroyed(FramesconvES20_dtor)}
    ELSE {Destroyed(FramesconvES31_dtor)}

(***************************************************************************)
(* State.                                                                  *)
(***************************************************************************)
VARIABLES
    argv,       \* the command line, argv[1..argc]; argv[argc + 1] is the null pointer
    it,         \* ParseCommandline's cursor into argv
    result,     \* ParseCommandline's local Options
    options,    \* main's options, NoOptions until ParseCommandline has returned
    pc,         \* the statement of main about to run
    exc,        \* the exception in flight or caught: [what, from], from = "" when none
    status,     \* how the process ended: "running", "EXIT_SUCCESS", "EXIT_FAILURE", "terminate", "crash"
    scope,      \* main's live automatic objects with a destructor, in construction order
    calls,      \* the native calls made so far, in order
    maps,       \* the mmap and munmap calls made so far, in order
    bufs,       \* the geometry each GbmBuffer was constructed with
    source,     \* the input stream handed to FillFrom: [good, avail]
    sink,       \* the output stream handed to DrainTo: [good, room]
    written,    \* the bytes written to the output stream
    clientExt,  \* the client extension string the EGL returned
    displayExt, \* the display extension string the EGL returned
    resolved,   \* CreateGlTexture's static glEGLImageTargetTexture2DOES is set
    images,     \* what each CreateEglImage call passed to and got from eglCreateImage
    rgbx_data,  \* the bytes of the source buffer's memory
    nv12_data,  \* the bytes of the destination buffer's memory
    output      \* the bytes DrainTo wrote to the output stream

vars ==
    <<argv, it, result, options, pc, exc, status, scope, calls, maps, bufs, source, sink,
      written, clientExt, displayExt, resolved, images, rgbx_data, nv12_data, output>>

parseVars == <<argv, it, result, options>>
ioVars == <<maps, bufs, source, sink, written>>
eglVars == <<clientExt, displayExt, resolved>>
dataVars == <<rgbx_data, nv12_data, output>>

NoException == [what |-> "", from |-> ""]
NoStream == [good |-> FALSE, avail |-> 0]
NoSink == [good |-> FALSE, room |-> 0]
NoImage == [attrib_list |-> <<>>, result |-> ""]

\* argv[i], with argv[argc] the terminating null pointer.
Arg(i) == IF i <= Len(argv) THEN argv[i] ELSE nullptr

Init ==
    /\ argv \in ArgvSet
    /\ it = 1
    /\ result = InitialResult
    /\ options = NoOptions
    /\ pc = "ParseCommandline"
    /\ exc = NoException
    /\ status = "running"
    /\ scope = <<>>
    /\ calls = <<>>
    /\ maps = <<>>
    /\ bufs = [b \in {"rgbx", "nv12"} |-> NoBuffer]
    /\ source = NoStream
    /\ sink = NoSink
    /\ written = 0
    /\ clientExt = nullptr
    /\ displayExt = nullptr
    /\ resolved = FALSE
    /\ images = [b \in {"rgbx", "nv12"} |-> NoImage]
    /\ rgbx_data = <<>>
    /\ nv12_data = <<>>
    /\ output = <<>>

\* One pass of the for loop of ParseCommandline.
ParseArg ==
    /\ pc = "ParseCommandline"
    /\ it <= Len(argv)
    /\ \E o \in ParseOption(result, argv[it], Arg(it + 1)) :
        /\ result' = o.result
        /\ it' = it + o.used
        /\ IF o.kind = "return" THEN
               /\ UNCHANGED <<pc, exc, status>>
           ELSE IF o.kind = "throw" THEN
               /\ pc' = "unwind"
               /\ exc' = [what |-> o.what, from |-> "ParseCommandline"]
               /\ UNCHANGED status
           ELSE
               /\ pc' = "exit"
               /\ status' = "crash"
               /\ UNCHANGED exc
    /\ UNCHANGED <<argv, options, scope, calls>>
    /\ UNCHANGED <<ioVars, eglVars>>
    /\ UNCHANGED <<images, dataVars>>

\* The end of the loop: the usage check and the return to main.
ParseReturn ==
    /\ pc = "ParseCommandline"
    /\ it > Len(argv)
    /\ IF result.width = 0 \/ result.height = 0 THEN
           /\ pc' = "unwind"
           /\ exc' = [what |-> kUsage, from |-> "ParseCommandline"]
           /\ UNCHANGED options
       ELSE
           /\ pc' = "GbmDevice"
           /\ options' = result
           /\ UNCHANGED exc
    /\ UNCHANGED <<argv, it, result, status, scope, calls>>
    /\ UNCHANGED <<ioVars, eglVars>>
    /\ UNCHANGED <<images, dataVars>>

\* A statement of main at step that constructs object obj (or none, ""): r is how
\* the call ended.  On success the object joins the scope and main goes on to next;
\* on failure the exception starts to unwind.
Statement(step, r, obj, next) ==
    /\ calls' = calls \o r.calls
    /\ IF r.ok THEN
           /\ pc' = next
           /\ scope' = IF obj = "" THEN scope ELSE Append(scope, obj)
           /\ UNCHANGED exc
       ELSE
           /\ pc' = "unwind"
           /\ exc' = [what |-> r.what, from |-> step]
           /\ UNCHANGED scope
    /\ UNCHANGED <<parseVars, status, dataVars>>

\* GbmDevice device(options.render_node); open fails on a null path.
GbmDevice ==
    /\ pc = "GbmDevice"
    /\ \E openOK \in (IF options.render_node = nullptr THEN {FALSE} ELSE BOOLEAN), createOK \in BOOLEAN :
        Statement("GbmDevice", GbmDevice_ctor(openOK, createOK), "device", "CreateGbmBuffer_rgbx")
    /\ UNCHANGED <<ioVars, eglVars>>
    /\ UNCHANGED images

\* const auto& buffer_rgbx = device.CreateGbmBuffer(options.width, options.height);
CreateGbmBuffer_rgbx ==
    /\ pc = "CreateGbmBuffer_rgbx"
    /\ \E boOK \in BOOLEAN, fdOK \in BOOLEAN :
        LET r == GbmBuffer_ctor("rgbx", boOK, fdOK) IN
        /\ Statement("CreateGbmBuffer_rgbx", r, "buffer_rgbx", "FillFrom")
        /\ bufs' = IF r.ok THEN [bufs EXCEPT !["rgbx"] = RgbxGeometry(options)] ELSE bufs
    /\ UNCHANGED <<maps, source, sink, written, eglVars>>
    /\ UNCHANGED images

\* The streams the input can be: std::cin, or an ifstream that may have failed to
\* open; either supplies none, one too few, or all of the bytes asked for.
SourceStreams(opts, size) ==
    {[good |-> g, avail |-> a] :
        g \in (IF opts.input = nullptr THEN {TRUE} ELSE BOOLEAN), a \in {0, size - 1, size}}

\* The addresses mmap may return for the next mapping; 0 stands for MAP_FAILED.
MmapResults == {0, Len(maps) + 1}

\* buffer_rgbx.FillFrom(source) or buffer_rgbx.FillFrom(std::cin)
FillSource ==
    /\ pc = "FillFrom"
    /\ \E data \in MmapResults, stream \in SourceStreams(options, MappedSize(bufs["rgbx"])) :
        LET r == FillFrom(bufs["rgbx"], data, stream) IN
        /\ Statement("FillFrom", [ok |-> r.ok, what |-> r.what, calls |-> <<>>], "", "CreateGbmBuffer_nv12")
        /\ maps' = maps \o r.maps
        /\ source' = stream
    /\ UNCHANGED <<bufs, sink, written, eglVars>>
    /\ UNCHANGED images

\* const auto& buffer_nv12 = device.CreateGbmBuffer(options.width / 4, options.height * 3 / 2);
CreateGbmBuffer_nv12 ==
    /\ pc = "CreateGbmBuffer_nv12"
    /\ \E boOK \in BOOLEAN, fdOK \in BOOLEAN :
        LET r == GbmBuffer_ctor("nv12", boOK, fdOK) IN
        /\ Statement("CreateGbmBuffer_nv12", r, "buffer_nv12", "EglContext")
        /\ bufs' = IF r.ok THEN [bufs EXCEPT !["nv12"] = Nv12Geometry(options)] ELSE bufs
    /\ UNCHANGED <<maps, source, sink, written, eglVars>>
    /\ UNCHANGED images

\* EglContext context(...);  The strings the EGL returned are kept as far as the
\* constructor asked for them.
EglContext ==
    /\ pc = "EglContext"
    /\ \E c \in ClientExtStrings, d \in DisplayExtStrings, f \in EglFailures :
        LET r == EglContext_ctor([clientExt |-> c, displayExt |-> d, fail |-> f])
            asked == \E k \in 1..Len(r.calls) :
                        r.calls[k].fn = "eglQueryString" /\ r.calls[k].obj = "display"
        IN  /\ Statement("EglContext", r, "context", "MakeCurrent")
            /\ clientExt' = c
            /\ displayExt' = IF asked THEN d ELSE nullptr
    /\ UNCHANGED <<ioVars, resolved>>
    /\ UNCHANGED images

\* context.MakeCurrent(); Defer deferred_reset_current(...);
MakeContextCurrent ==
    /\ pc = "MakeCurrent"
    /\ \E ok \in BOOLEAN :
        Statement("MakeCurrent", MakeCurrent(ok), "deferred_reset_current", "CreateEglImage_rgbx")
    /\ UNCHANGED <<ioVars, eglVars>>
    /\ UNCHANGED images

\* EGLImage image_rgbx = buffer_rgbx.CreateEglImage(display); Defer ...
CreateEglImage_rgbx ==
    /\ pc = "CreateEglImage_rgbx"
    /\ \E ok \in BOOLEAN :
        LET r == CreateEglImage("rgbx", bufs["rgbx"], ok) IN
        /\ Statement("CreateEglImage_rgbx", r, "deferred_egl_destroy_image_rgbx", "CreateGlTexture_rgbx")
        /\ images' = [images EXCEPT !["rgbx"] = [attrib_list |-> r.attrib_list, result |-> r.result]]
    /\ UNCHANGED <<ioVars, eglVars>>

\* GLuint texture_rgbx = CreateGlTexture(GL_TEXTURE_2D, image_rgbx); Defer ...
CreateGlTexture_rgbx ==
    /\ pc = "CreateGlTexture_rgbx"
    /\ \E f \in TextureFailures(resolved) :
        LET r == CreateGlTexture("rgbx", resolved, f) IN
        /\ Statement("CreateGlTexture_rgbx", r, "deferred_gl_delete_textures_rgbx", "CreateEglImage_nv12")
        /\ resolved' = r.resolved
    /\ UNCHANGED <<ioVars, clientExt, displayExt>>
    /\ UNCHANGED images

\* EGLImage image_nv12 = buffer_nv12.CreateEglImage(display); Defer ...
CreateEglImage_nv12 ==
    /\ pc = "CreateEglImage_nv12"
    /\ \E ok \in BOOLEAN :
        LET r == CreateEglImage("nv12", bufs["nv12"], ok) IN
        /\ Statement("CreateEglImage_nv12", r, "deferred_egl_destroy_image_nv12", "CreateGlTexture_nv12")
        /\ images' = [images EXCEPT !["nv12"] = [attrib_list |-> r.attrib_list, result |-> r.result]]
    /\ UNCHANGED <<ioVars, eglVars>>

\* GLuint texture_nv12 = CreateGlTexture(GL_TEXTURE_2D, image_nv12); Defer ...
CreateGlTexture_nv12 ==
    /\ pc = "CreateGlTexture_nv12"
    /\ \E f \in TextureFailures(resolved) :
        LET r == CreateGlTexture("nv12", resolved, f) IN
        /\ Statement("CreateGlTexture_nv12", r, "deferred_gl_delete_textures_nv12", "CreateFramesconv")
        /\ resolved' = r.resolved
    /\ UNCHANGED <<ioVars, clientExt, displayExt>>
    /\ UNCHANGED images

\* const auto& framesconv = options.es20 ? CreateFramesconvES20() : CreateFramesconvES31();
CreateFramesconv ==
    /\ pc = "CreateFramesconv"
    /\ \E r \in (IF options.es20 THEN {FramesconvES20_ctor(f) : f \in ES20Failures}
                 ELSE {FramesconvES31_ctor(f) : f \in ProgramFailures}) :
        Statement("CreateFramesconv", r, "framesconv", "Convert")
    /\ UNCHANGED <<ioVars, eglVars>>
    /\ UNCHANGED images

\* framesconv->Convert(texture_rgbx, options.width, options.height, texture_nv12);
Convert ==
    /\ pc = "Convert"
    /\ \E r \in (IF options.es20 THEN {FramesconvES20_Convert(f) : f \in ConvertFailures}
                 ELSE {FramesconvES31_Convert(ok) : ok \in BOOLEAN}) :
        Statement("Convert", r, "", "Sync")
    /\ UNCHANGED <<ioVars, eglVars>>
    /\ UNCHANGED images

\* context.Sync();
SyncContext ==
    /\ pc = "Sync"
    /\ \E createOK \in BOOLEAN, waitOK \in BOOLEAN :
        Statement("Sync", Sync(createOK, waitOK), "", "DrainTo")
    /\ UNCHANGED <<ioVars, eglVars>>
    /\ UNCHANGED images

\* The streams the output can be: std::cout, or an ofstream that may have failed
\* to open; either takes none, one too few, or all of the bytes.
SinkStreams(opts, size) ==
    {[good |-> g, room |-> a] :
        g \in (IF opts.output = nullptr THEN {TRUE} ELSE BOOLEAN), a \in {0, size - 1, size}}

\* buffer_nv12.DrainTo(stream) or buffer_nv12.DrainTo(std::cout); return EXIT_SUCCESS;
DrainResult ==
    /\ pc = "DrainTo"
    /\ \E data \in MmapResults, stream \in SinkStreams(options, MappedSize(bufs["nv12"])) :
        LET r == DrainTo(bufs["nv12"], data, stream) IN
        /\ Statement("DrainTo", [ok |-> r.ok, what |-> r.what, calls |-> <<>>], "", "return")
        /\ maps' = maps \o r.maps
        /\ sink' = stream
        /\ written' = r.written
    /\ UNCHANGED <<bufs, source, eglVars>>
    /\ UNCHANGED images

\* The destruction of the next object of main's try block, on return or on unwinding.
\* An exception that escapes a destructor ends the process in std::terminate.
ScopeExit ==
    /\ pc \in {"unwind", "return"}
    /\ scope # <<>>
    /\ LET k == NextDestroyed(scope) IN
       \E d \in Destructor(scope[k], options.es20) :
        /\ calls' = calls \o d.calls
        /\ IF d.throws THEN
               /\ pc' = "exit"
               /\ status' = "terminate"
               /\ UNCHANGED scope
           ELSE
               /\ scope' = [j \in 1..(Len(scope) - 1) |-> IF j < k THEN scope[j] ELSE scope[j + 1]]
               /\ UNCHANGED <<pc, status>>
    /\ UNCHANGED <<parseVars, exc, ioVars, eglVars>>
    /\ UNCHANGED <<images, dataVars>>

\* catch (const std::exception& ex): print ex.what() and return EXIT_FAILURE.
Catch ==
    /\ pc = "unwind"
    /\ scope = <<>>
    /\ pc' = "exit"
    /\ status' = "EXIT_FAILURE"
    /\ UNCHANGED <<parseVars, exc, scope, calls, ioVars, eglVars>>
    /\ UNCHANGED <<images, dataVars>>

\* main returns EXIT_SUCCESS once its objects are destroyed.
ReturnSuccess ==
    /\ pc = "return"
    /\ scope = <<>>
    /\ pc' = "exit"
    /\ status' = "EXIT_SUCCESS"
    /\ UNCHANGED <<parseVars, exc, scope, calls, ioVars, eglVars>>
    /\ UNCHANGED <<images, dataVars>>

Next ==
    \/ ParseArg
    \/ ParseReturn
    \/ GbmDevice
    \/ CreateGbmBuffer_rgbx
    \/ FillSource
    \/ CreateGbmBuffer_nv12
    \/ EglContext
    \/ MakeContextCurrent
    \/ CreateEglImage_rgbx
    \/ CreateGlTexture_rgbx
    \/ CreateEglImage_nv12
    \/ CreateGlTexture_nv12
    \/ CreateFramesconv
    \/ Convert
    \/ SyncContext
    \/ DrainResult
    \/ ScopeExit
    \/ Catch
    \/ ReturnSuccess

Spec == Init /\ [][Next]_vars

(***************************************************************************)
(* The frame's way through main.  The run in which every native call       *)
(* succeeds, followed for the bytes alone: the command line is parsed and  *)
(* validated as above, FillFrom copies the input into the source buffer,   *)
(* Convert runs the selected kernel, Sync waits for it, and DrainTo copies *)
(* the destination buffer to the output.                                   *)
(***************************************************************************)
\* Command lines that give sizes and possibly select a kernel.
KernelArgv ==
    {<<tok_w, w, tok_h, h>> \o es :
        w \in {tok_4, tok_8, tok_16}, h \in {tok_4, tok_8},
        es \in {<<>>, <<tok_es, tok_20>>, <<tok_es, tok_31>>}}

\* Colours of input pixels, <<R, G, B>>.
Black == <<0, 0, 0>>
Red == <<255, 0, 0>>
Palette == {Black, <<255, 255, 255>>, Red, <<0, 255, 0>>, <<0, 0, 255>>,
            <<128, 128, 128>>, <<10, 200, 77>>}

\* A raw RGBX frame: four bytes R, G, B, X per pixel, rows top to bottom.
RgbxFrame(geo, pixel) ==
    [o \in 1..(geo.width * geo.height * 4) |->
        LET p == (o - 1) \div 4
            c == (o - 1) % 4
        IN  IF c = 3 THEN 255 ELSE pixel[<<p % geo.width, p \div geo.width>>][c + 1]]

Pixels(geo) == (0..(geo.width - 1)) \X (0..(geo.height - 1))

UniformFrame(geo, colour) == RgbxFrame(geo, [xy \in Pixels(geo) |-> colour])

ImpulseFrame(geo, ix, iy) ==
    RgbxFrame(geo, [xy \in Pixels(geo) |-> IF xy = <<ix, iy>> THEN Red ELSE Black])

\* The input files of a given size: uniform colours, and one red pixel on black.
Frames(geo) ==
    {UniformFrame(geo, c) : c \in Palette}
        \cup {ImpulseFrame(geo, xy[1], xy[2]) : xy \in Pixels(geo)}

\* The memory of a fresh buffer, which nothing has written yet.
FreshMemory(geo) == {[o \in 1..(geo.width * geo.height * 4) |-> fill] : fill \in {0, 255}}

KernelInit ==
    /\ argv \in KernelArgv
    /\ it = 1
    /\ result = InitialResult
    /\ options = NoOptions
    /\ pc = "ParseCommandline"
    /\ exc = NoException
    /\ status = "running"
    /\ scope = <<>>
    /\ calls = <<>>
    /\ maps = <<>>
    /\ bufs = [b \in {"rgbx", "nv12"} |-> NoBuffer]
    /\ source = NoStream
    /\ sink = NoSink
    /\ written = 0
    /\ clientExt = nullptr
    /\ displayExt = nullptr
    /\ resolved = FALSE
    /\ images = [b \in {"rgbx", "nv12"} |-> NoImage]
    /\ rgbx_data = <<>>
    /\ nv12_data = <<>>
    /\ output = <<>>

\* The buffers are allocated and buffer_rgbx.FillFrom(stream) copies
\* width * height * 4 bytes of the input into the source buffer.
FillFrame ==
    /\ pc = "GbmDevice"
    /\ bufs' = [rgbx |-> RgbxGeometry(options), nv12 |-> Nv12Geometry(options)]
    /\ rgbx_data' \in Frames(RgbxGeometry(options))
    /\ nv12_data' \in FreshMemory(Nv12Geometry(options))
    /\ pc' = "Convert"
    /\ UNCHANGED <<parseVars, exc, status, scope, calls, maps, source, sink, written>>
    /\ UNCHANGED <<eglVars, images, output>>

\* framesconv->Convert(texture_rgbx, options.width, options.height, texture_nv12);
\* context.Sync();
ConvertFrame ==
    /\ pc = "Convert"
    /\ IF options.es20
       THEN \E tie \in {0, 1} \X {0, 1} :
                nv12_data' = RenderKernel(rgbx_data, bufs["rgbx"], tie)
       ELSE nv12_data' = ComputeKernel(rgbx_data, bufs["rgbx"], nv12_data)
    /\ pc' = "DrainTo"
    /\ UNCHANGED <<parseVars, exc, status, scope, calls, ioVars, eglVars, images>>
    /\ UNCHANGED <<rgbx_data, output>>

\* buffer_nv12.DrainTo(stream) writes the width * height * 4 bytes of the
\* destination buffer, and main returns.
DrainFrame ==
    /\ pc = "DrainTo"
    /\ output' = nv12_data
    /\ written' = bufs["nv12"].width * bufs["nv12"].height * 4
    /\ pc' = "exit"
    /\ status' = "EXIT_SUCCESS"
    /\ UNCHANGED <<parseVars, exc, scope, calls, maps, bufs, source, sink>>
    /\ UNCHANGED <<eglVars, images, rgbx_data, nv12_data>>

KernelNext ==
    \/ ParseArg
    \/ ParseReturn
    \/ FillFrame
    \/ ConvertFrame
    \/ DrainFrame
    \/ Catch

KernelSpec == KernelInit /\ [][KernelNext]_vars

(***************************************************************************)
(* An error raised from a native error code: the failing call's code is    *)
(* read with eglGetError or glGetError, wrapped into the message of the    *)
(* std::runtime_error, and the exception reaches main's handler.           *)
(***************************************************************************)
ErrorInit ==
    /\ argv = <<>>
    /\ it = 1
    /\ result = InitialResult
    /\ options = NoOptions
    /\ pc = "throw"
    /\ exc = NoException
    /\ status = "running"
    /\ scope = <<>>
    /\ calls = <<>>
    /\ maps = <<>>
    /\ bufs = [b \in {"rgbx", "nv12"} |-> NoBuffer]
    /\ source = NoStream
    /\ sink = NoSink
    /\ written = 0
    /\ clientExt = nullptr
    /\ displayExt = nullptr
    /\ resolved = FALSE
    /\ images = [b \in {"rgbx", "nv12"} |-> NoImage]
    /\ rgbx_data = <<>>
    /\ nv12_data = <<>>
    /\ output = <<>>

\* throw std::runtime_error(WrapEglError(message)) with error = eglGetError().
ThrowEglError ==
    /\ pc = "throw"
    /\ \E message \in EglMessages, e \in EglErrorCodes :
        /\ calls' = <<Call("eglGetError", e, TRUE)>>
        /\ exc' = [what |-> WrapEglError(message, e.code), from |-> message]
    /\ pc' = "unwind"
    /\ UNCHANGED <<parseVars, status, scope, ioVars, eglVars, images, dataVars>>

\* throw std::runtime_error(WrapGlError(message, error)) with error = glGetError().
ThrowGlError ==
    /\ pc = "throw"
    /\ \E message \in GlMessages, e \in GlErrorCodes :
        /\ calls' = <<Call("glGetError", e, TRUE)>>
        /\ exc' = [what |-> WrapGlError(message, e.code), from |-> message]
    /\ pc' = "unwind"
    /\ UNCHANGED <<parseVars, status, scope, ioVars, eglVars, images, dataVars>>

ErrorNext ==
    \/ ThrowEglError
    \/ ThrowGlError
    \/ Catch

ErrorSpec == ErrorInit /\ [][ErrorNext]_vars
(***************************************************************************)
(* Reading the logs.                                                       *)
(***************************************************************************)
\* The native function that releases what an acquiring function returns.
ReleaseOf ==
    [open |-> "close", gbm_create_device |-> "gbm_device_destroy",
     gbm_bo_create |-> "gbm_bo_destroy", gbm_bo_get_fd |-> "close",
     eglGetPlatformDisplay |-> "eglTerminate", eglCreateContext |-> "eglDestroyContext",
     eglCreateImage |-> "eglDestroyImage", glGenTextures |-> "glDeleteTextures",
     glCreateShader |-> "glDeleteShader", glCreateProgram |-> "glDeleteProgram",
     glGenFramebuffers |-> "glDeleteFramebuffers", glGenBuffers |-> "glDeleteBuffers",
     eglCreateSync |-> "eglDestroySync"]

AcquireFns == DOMAIN ReleaseOf
ReleaseFns == {ReleaseOf[f] : f \in AcquireFns}

\* The context being current is a resource too: bound by eglMakeCurrent(context),
\* given up by eglMakeCurrent(EGL_NO_CONTEXT).
IsAcquire(c) ==
    c.ok /\ (c.fn \in AcquireFns \/ (c.fn = "eglMakeCurrent" /\ c.obj = "context"))
IsRelease(c) ==
    c.fn \in ReleaseFns \/ (c.fn = "eglMakeCurrent" /\ c.obj = "EGL_NO_CONTEXT")
ResourceOf(c) == IF c.fn = "eglMakeCurrent" THEN "current" ELSE c.obj

Acquires == {k \in 1..Len(calls) : IsAcquire(calls[k])}
Releases == {k \in 1..Len(calls) : IsRelease(calls[k])}
AcquiredIn(log, res) ==
    Cardinality({k \in 1..Len(log) : IsAcquire(log[k]) /\ ResourceOf(log[k]) = res})
ReleasedIn(log, res) ==
    Cardinality({k \in 1..Len(log) : IsRelease(log[k]) /\ ResourceOf(log[k]) = res})
MatchingRelease(acq, rel) ==
    IF acq.fn = "eglMakeCurrent" THEN rel.fn = "eglMakeCurrent" ELSE rel.fn = ReleaseOf[acq.fn]
CallsOf(fn) == {k \in 1..Len(calls) : calls[k].fn = fn}

\* main has returned, through return EXIT_SUCCESS or through its catch clause.
MainReturned == pc = "exit" /\ status \in {"EXIT_SUCCESS", "EXIT_FAILURE"}

(***************************************************************************)
(* C1.  Whatever step of main fails, every resource acquired before it has *)
(* been released exactly once when main returns; at no point of a run has  *)
(* a resource been released more often than it was acquired, acquired      *)
(* twice, or released by a function other than the one that matches its    *)
(* acquisition.                                                            *)
(***************************************************************************)
C1_ReleasedExactlyOnce ==
    LET acquires == Acquires
        releases == Releases
    IN  /\ \A j \in acquires : \A k \in acquires :
            ResourceOf(calls[j]) = ResourceOf(calls[k]) => j = k
        /\ \A j \in releases : \A k \in releases :
            ResourceOf(calls[j]) = ResourceOf(calls[k]) => j = k
        /\ \A k \in releases : \E j \in acquires :
            /\ j < k
            /\ ResourceOf(calls[j]) = ResourceOf(calls[k])
            /\ MatchingRelease(calls[j], calls[k])
        /\ MainReturned =>
            \A j \in acquires : \E k \in releases :
                ResourceOf(calls[j]) = ResourceOf(calls[k])

\* The drain failed with everything acquired, and main returned with the kernel
\* program and the device both released.
C1_Witness ==
    /\ MainReturned
    /\ exc.from = "DrainTo"
    /\ AcquiredIn(calls, "program") = 1
    /\ ReleasedIn(calls, "program") = 1
    /\ ReleasedIn(calls, "device_fd") = 1

(***************************************************************************)
(* C2.  Acquisition follows one fixed order (device, source buffer,        *)
(* destination buffer, display and context, make-current, source image and *)
(* texture, destination image and texture, kernel, fence), and the         *)
(* releases made so far are always the reverse of the latest acquisitions; *)
(* when main returns, by either path, the releases are exactly the         *)
(* reverse of the acquisitions.  The shader object, which CreateGlProgram  *)
(* drops before it returns, is not one of main's resources.                *)
(***************************************************************************)
RECURSIVE Reverse(_)
Reverse(seq) == IF seq = <<>> THEN <<>> ELSE Append(Reverse(Tail(seq)), Head(seq))

IsPrefixOf(a, b) == Len(a) <= Len(b) /\ SubSeq(b, 1, Len(a)) = a

IsMainAcquire(c) == IsAcquire(c) /\ c.obj # "shader"
IsMainRelease(c) == IsRelease(c) /\ c.obj # "shader"

RECURSIVE ResourcesOf(_)
ResourcesOf(log) ==
    IF log = <<>> THEN <<>> ELSE <<ResourceOf(Head(log))>> \o ResourcesOf(Tail(log))

AcquisitionOrder == ResourcesOf(SelectSeq(calls, IsMainAcquire))
ReleaseOrder == ResourcesOf(SelectSeq(calls, IsMainRelease))

FixedOrder(es20) ==
    <<"device_fd", "gbm_device", "bo_rgbx", "fd_rgbx", "bo_nv12", "fd_nv12", "display", "context",
      "current", "image_rgbx", "texture_rgbx", "image_nv12", "texture_nv12">>
    \o (IF es20 THEN <<"framebuffer", "buffer_object", "program">> ELSE <<"program">>)
    \o <<"sync">>

C2_ReverseOrder ==
    /\ IsPrefixOf(AcquisitionOrder, FixedOrder(options.es20))
    /\ IsPrefixOf(ReleaseOrder, Reverse(AcquisitionOrder))
    /\ MainReturned => ReleaseOrder = Reverse(AcquisitionOrder)

\* An exceptional exit (Convert failed) that released kernel, textures, images,
\* binding, context, buffers and device.
C2_Witness ==
    /\ MainReturned
    /\ exc.from = "Convert"
    /\ Len(ReleaseOrder) >= 14
    /\ ReleaseOrder[1] = "program"
    /\ ReleaseOrder[Len(ReleaseOrder)] = "device_fd"

(***************************************************************************)
(* C3.  A run whose -w or -h operand is missing, not positive or not       *)
(* aligned (width to 8, height to 4) ends in main's catch clause with an   *)
(* error from ParseCommandline, and makes no native call at all: no render *)
(* node is opened, no GBM device, buffer or EGL context constructed.       *)
(***************************************************************************)
Flags == {tok_w, tok_h, tok_i, tok_o, tok_r, tok_es}

\* Word i of a is read as an option: the words before it pair up into options
\* with their operands and words that are no option.
RECURSIVE IsOptionAt(_, _)
IsOptionAt(a, i) ==
    \/ i = 1
    \/ i > 1 /\ a[i - 1] \notin Flags /\ IsOptionAt(a, i - 1)
    \/ i > 2 /\ a[i - 2] \in Flags /\ IsOptionAt(a, i - 2)

OperandOf(a, i) == IF i < Len(a) THEN a[i + 1] ELSE nullptr

BadSize(v, align) == v = nullptr \/ atoi(v) <= 0 \/ atoi(v) % align # 0

HasBadSize(a) ==
    \E i \in 1..Len(a) :
        /\ IsOptionAt(a, i)
        /\ \/ a[i] = tok_w /\ BadSize(OperandOf(a, i), 8)
           \/ a[i] = tok_h /\ BadSize(OperandOf(a, i), 4)

C3_BadSizeRejected ==
    HasBadSize(argv) =>
        /\ pc \in {"ParseCommandline", "unwind", "exit"}
        /\ options = NoOptions
        /\ calls = <<>>
        /\ maps = <<>>
        /\ scope = <<>>
        /\ pc = "unwind" => exc.from = "ParseCommandline"
        /\ pc = "exit" => status = "EXIT_FAILURE" /\ exc.from = "ParseCommandline"

\* A misaligned size was rejected and main returned failure.
C3_Witness ==
    /\ HasBadSize(argv)
    /\ pc = "exit"
    /\ status = "EXIT_FAILURE"
    /\ exc.what = "Size must be aligned"

(***************************************************************************)
(* C4.  As claimed: when the baseline implementation is selected, a        *)
(* command line whose widths are positive multiples of 4 and whose heights *)
(* are positive multiples of 2 is not rejected for its alignment.          *)
(***************************************************************************)
SelectsBaseline(a) ==
    /\ \E i \in 1..Len(a) : IsOptionAt(a, i) /\ a[i] = tok_es /\ OperandOf(a, i) = tok_20
    /\ \A i \in 1..Len(a) : (IsOptionAt(a, i) /\ a[i] = tok_es) => OperandOf(a, i) = tok_20

SizesAligned(a, walign, halign) ==
    \A i \in 1..Len(a) :
        /\ (IsOptionAt(a, i) /\ a[i] = tok_w) => ~BadSize(OperandOf(a, i), walign)
        /\ (IsOptionAt(a, i) /\ a[i] = tok_h) => ~BadSize(OperandOf(a, i), halign)

C4_BaselineAcceptsFourTwo ==
    (SelectsBaseline(argv) /\ SizesAligned(argv, 4, 2)) => exc.what # "Size must be aligned"

(***************************************************************************)
(* C4, amended.  Whichever implementation is selected, ParseCommandline    *)
(* returns only a width divisible by 8 and a height divisible by 4, and a  *)
(* command line with a width not divisible by 8 or a height not divisible  *)
(* by 4 is rejected, also when the baseline implementation is selected.    *)
(***************************************************************************)
C4_EightFourWhateverImplementation ==
    /\ options # NoOptions =>
        /\ options.width > 0 /\ options.width % 8 = 0
        /\ options.height > 0 /\ options.height % 4 = 0
    /\ ~SizesAligned(argv, 8, 4) => options = NoOptions

\* The baseline implementation selected and the sizes accepted.
C4_Witness ==
    /\ options.es20
    /\ SelectsBaseline(argv)
    /\ options.width = 8
    /\ options.height = 20

(***************************************************************************)
(* C5.  For every accepted width and height the destination buffer is      *)
(* width / 4 by height * 3 / 2 with both divisions exact, and a drain that *)
(* succeeds writes exactly width * height * 3 / 2 bytes.                   *)
(***************************************************************************)
Drained == pc \in {"return", "exit"} /\ exc = NoException /\ options # NoOptions

C5_DrainedBytes ==
    /\ options # NoOptions =>
        /\ (options.width \div 4) * 4 = options.width
        /\ ((options.height * 3) \div 2) * 2 = options.height * 3
    /\ bufs["nv12"] # NoBuffer =>
        /\ bufs["nv12"].width * 4 = options.width
        /\ bufs["nv12"].height * 2 = options.height * 3
    /\ Drained =>
        /\ written = bufs["nv12"].width * bufs["nv12"].height * 4
        /\ written * 2 = options.width * options.height * 3

\* A 16 x 20 frame drained: 480 bytes.
C5_Witness ==
    /\ Drained
    /\ options.width = 16
    /\ options.height = 20
    /\ written = 480

(***************************************************************************)
(* C6.  FillFrom and DrainTo map width * height * 4 bytes of their buffer; *)
(* every mmap that succeeds is followed at once by one munmap of the same  *)
(* address and size, also when the stream fails; a failed mmap raises an   *)
(* error and is followed by no munmap.                                     *)
(***************************************************************************)
C6_MapUnmap ==
    /\ \A k \in 1..Len(maps) :
        /\ (maps[k].fn = "mmap" /\ maps[k].addr # 0) =>
            /\ k < Len(maps)
            /\ maps[k + 1] = [fn |-> "munmap", addr |-> maps[k].addr, size |-> maps[k].size]
        /\ (maps[k].fn = "mmap" /\ maps[k].addr = 0) =>
            /\ k = Len(maps)
            /\ exc.from \in {"FillFrom", "DrainTo"}
            /\ exc.what = "Failed to mmap gbm buffer object fd"
        /\ maps[k].fn = "munmap" =>
            /\ k > 1
            /\ maps[k - 1] = [fn |-> "mmap", addr |-> maps[k].addr, size |-> maps[k].size]
    /\ maps # <<>> => maps[1].size = bufs["rgbx"].width * bufs["rgbx"].height * 4
    /\ Len(maps) > 2 => maps[3].size = bufs["nv12"].width * bufs["nv12"].height * 4
    /\ Len(maps) <= 4

\* The read failed after a successful mmap, and the mapping is gone.
C6_Witness ==
    /\ exc.what = "Failed to read source"
    /\ Len(maps) = 2
    /\ maps[2].fn = "munmap"
    /\ maps[2].size > 0

(***************************************************************************)
(* C7.  A source that cannot be opened or supplies fewer than              *)
(* width * height * 4 bytes makes FillFrom throw: the destination buffer   *)
(* is not allocated, no EGL call and no kernel is run, nothing is written, *)
(* and main returns EXIT_FAILURE.  A write that fails in DrainTo makes     *)
(* DrainTo throw, and the run never ends with EXIT_SUCCESS.                *)
(***************************************************************************)
FillCalled == maps # <<>>
SourceShort ==
    FillCalled /\ ~(source.good /\ source.avail >= bufs["rgbx"].width * bufs["rgbx"].height * 4)

DrainCalled == Len(maps) > 2
SinkFailed ==
    /\ DrainCalled
    /\ maps[3].addr # 0
    /\ ~(sink.good /\ sink.room >= bufs["nv12"].width * bufs["nv12"].height * 4)

C7_ShortStreamsFatal ==
    /\ SourceShort =>
        /\ exc.from = "FillFrom"
        /\ pc \in {"unwind", "exit"}
        /\ \A k \in 1..Len(calls) : calls[k].fn \in {"open", "close", "gbm_create_device",
                "gbm_device_destroy", "gbm_bo_create", "gbm_bo_get_fd", "gbm_bo_destroy"}
        /\ \A k \in 1..Len(calls) : calls[k].obj \notin {"bo_nv12", "fd_nv12"}
        /\ bufs["nv12"] = NoBuffer
        /\ ~DrainCalled
        /\ written = 0
        /\ pc = "exit" => status = "EXIT_FAILURE"
    /\ SinkFailed =>
        /\ exc = [what |-> "Failed to write target", from |-> "DrainTo"]
        /\ pc \in {"unwind", "exit"}
        /\ written < bufs["nv12"].width * bufs["nv12"].height * 4
        /\ pc = "exit" => status \in {"EXIT_FAILURE", "terminate"}

\* A source one byte short ended the run with EXIT_FAILURE.
C7_Witness ==
    /\ SourceShort
    /\ source.good
    /\ source.avail > 0
    /\ pc = "exit"
    /\ status = "EXIT_FAILURE"

(***************************************************************************)
(* C8.  When the EglContext constructor fails with the display in hand,    *)
(* it calls eglTerminate once, after its other EGL calls, and leaves no    *)
(* context; when it fails before, or succeeds, it terminates nothing, and  *)
(* a constructed EglContext owns one display and one context.              *)
(***************************************************************************)
Count(fn) == Cardinality(CallsOf(fn))
CountOK(fn) == Cardinality({k \in CallsOf(fn) : calls[k].ok})
EglFns ==
    {"eglQueryString", "eglGetPlatformDisplay", "eglInitialize", "eglBindAPI", "eglCreateContext"}

ContextAlive == \E k \in 1..Len(scope) : scope[k] = "context"

C8_ConstructorAtomic ==
    /\ exc.from = "EglContext" =>
        /\ ~ContextAlive
        /\ CountOK("eglCreateContext") = 0
        /\ Count("eglDestroyContext") = 0
        /\ Count("eglTerminate") = CountOK("eglGetPlatformDisplay")
        /\ \A t \in CallsOf("eglTerminate") :
            \A k \in 1..Len(calls) : calls[k].fn \in EglFns => k < t
    /\ ContextAlive =>
        /\ Count("eglTerminate") = 0
        /\ Count("eglDestroyContext") = 0
        /\ CountOK("eglGetPlatformDisplay") = 1
        /\ CountOK("eglCreateContext") = 1

\* eglBindAPI failed with the display initialized: one eglTerminate.
C8_Witness ==
    /\ exc = [what |-> "Failed to bind egl api", from |-> "EglContext"]
    /\ Count("eglTerminate") = 1
    /\ CountOK("eglInitialize") = 1

(***************************************************************************)
(* C9.  eglCreateContext is called, and so a context constructed, only if  *)
(* EGL_MESA_platform_surfaceless occurs in the client extension string and *)
(* EGL_KHR_surfaceless_context, EGL_KHR_no_config_context and              *)
(* EGL_EXT_image_dma_buf_import all occur in the display's; a display is   *)
(* asked for only once the platform extension was found.                   *)
(***************************************************************************)
OccursIn(hay, needle) ==
    /\ hay # nullptr
    /\ \E before \in 0..Len(hay) :
        /\ before + Len(needle) <= Len(hay)
        /\ \A j \in 1..Len(needle) : hay[before + j] = needle[j]

C9_ExtensionsRequired ==
    /\ Count("eglGetPlatformDisplay") > 0 => OccursIn(clientExt, EGL_MESA_platform_surfaceless)
    /\ (Count("eglCreateContext") > 0 \/ Count("eglBindAPI") > 0 \/ ContextAlive) =>
        /\ OccursIn(clientExt, EGL_MESA_platform_surfaceless)
        /\ OccursIn(displayExt, EGL_KHR_surfaceless_context)
        /\ OccursIn(displayExt, EGL_KHR_no_config_context)
        /\ OccursIn(displayExt, EGL_EXT_image_dma_buf_import)
    /\ \A k \in CallsOf("eglGetPlatformDisplay") :
        \E q \in 1..(k - 1) : calls[q] = Call("eglQueryString", "EGL_NO_DISPLAY", TRUE)

\* The display lacks EGL_KHR_no_config_context: the constructor threw and never
\* called eglCreateContext.
C9_Witness ==
    /\ exc.from = "EglContext"
    /\ exc.what = "Required extenstion EGL_KHR_no_config_context is not supported"
    /\ displayExt = Join(<<EGL_KHR_surfaceless_context, EGL_EXT_image_dma_buf_import>>)
    /\ Count("eglCreateContext") = 0

(***************************************************************************)
(* C10.  Once a constructed EglContext has been destroyed the log holds    *)
(* one eglDestroyContext, directly followed by the one eglTerminate of the *)
(* run, whatever the two calls reported.                                   *)
(***************************************************************************)
ContextDestroyed == CountOK("eglCreateContext") = 1 /\ ~ContextAlive

C10_DestroyThenTerminate ==
    /\ ContextDestroyed =>
        /\ Count("eglDestroyContext") = 1
        /\ Count("eglTerminate") = 1
        /\ \A k \in CallsOf("eglDestroyContext") :
            k < Len(calls) /\ calls[k + 1].fn = "eglTerminate" /\ calls[k + 1].obj = "display"
    /\ CountOK("eglCreateContext") = 1 => Count("eglTerminate") <= 1

\* Both native calls reported an error, and both were made.
C10_Witness ==
    /\ ContextDestroyed
    /\ \E k \in CallsOf("eglDestroyContext") : ~calls[k].ok /\ ~calls[k + 1].ok

(***************************************************************************)
(* C11.  Every GL call of a run is made while the context is current:      *)
(* after an eglMakeCurrent(context) that succeeded and before any          *)
(* eglMakeCurrent(EGL_NO_CONTEXT); and a context that was made current is  *)
(* not destroyed before ResetCurrent has been called.                      *)
(***************************************************************************)
GlFns ==
    {"glGetString", "glGenTextures", "glEGLImageTargetTexture2DOES", "glDeleteTextures",
     "glCreateShader", "glCompileShader", "glCreateProgram", "glLinkProgram", "glDeleteShader",
     "glDeleteProgram", "glGenFramebuffers", "glGenBuffers", "glBufferData",
     "glGetUniformLocation", "glUniform1i", "glDeleteFramebuffers", "glDeleteBuffers",
     "glUseProgram", "glBindImageTexture", "glDispatchCompute", "glMemoryBarrier",
     "glBindFramebuffer", "glFramebufferTexture2D", "glCheckFramebufferStatus", "glBindTexture",
     "glBindBuffer", "glDrawArrays", "glGetShaderiv", "glGetProgramiv"}

OtherFns ==
    {"open", "close", "gbm_create_device", "gbm_device_destroy", "gbm_bo_create", "gbm_bo_get_fd",
     "gbm_bo_destroy", "eglQueryString", "eglGetPlatformDisplay", "eglInitialize", "eglBindAPI",
     "eglCreateContext", "eglDestroyContext", "eglTerminate", "eglMakeCurrent", "eglCreateImage",
     "eglDestroyImage", "eglGetProcAddress", "eglCreateSync", "eglClientWaitSync", "eglDestroySync"}

MadeCurrent == {k \in CallsOf("eglMakeCurrent") : calls[k].obj = "context" /\ calls[k].ok}
Resets == {k \in CallsOf("eglMakeCurrent") : calls[k].obj = "EGL_NO_CONTEXT"}

C11_GlOnlyWhileCurrent ==
    LET made == MadeCurrent
        resets == Resets
    IN  /\ \A k \in 1..Len(calls) : calls[k].fn \in GlFns \cup OtherFns
        /\ \A k \in 1..Len(calls) :
            calls[k].fn \in GlFns =>
                /\ \E m \in made : m < k
                /\ \A r \in resets : k < r
        /\ \A d \in CallsOf("eglDestroyContext") :
            made # {} => \E r \in resets : r < d

\* A run that failed in Convert and unwound: textures and program were deleted,
\* the binding reset, then the context destroyed.
C11_Witness ==
    /\ MainReturned
    /\ exc.from = "Convert"
    /\ Count("glDeleteTextures") = 2
    /\ Count("glDeleteProgram") = 1
    /\ Resets # {}
    /\ Count("eglDestroyContext") = 1

(***************************************************************************)
(* C12.  As claimed: whenever Sync has returned without throwing, the      *)
(* fence it created has signalled, that is, its eglClientWaitSync came     *)
(* back satisfied.  (With EGL_FOREVER the call either reports the          *)
(* condition satisfied or fails.)                                          *)
(***************************************************************************)
SyncReturned == pc \in {"DrainTo", "return"} \/ (pc \in {"unwind", "exit"} /\ exc.from = "DrainTo")

C12_SyncWaitsForFence ==
    SyncReturned => \A k \in CallsOf("eglClientWaitSync") : calls[k].ok

(***************************************************************************)
(* C12, the part that holds.  Every fence Sync creates is waited for once  *)
(* and destroyed once before Sync returns, whatever the wait reports; a    *)
(* failed eglCreateSync throws and leaves no fence.                        *)
(***************************************************************************)
C12_FenceDestroyedOnce ==
    /\ \A k \in CallsOf("eglCreateSync") :
        IF calls[k].ok
        THEN /\ k + 2 <= Len(calls)
             /\ calls[k + 1].fn = "eglClientWaitSync"
             /\ calls[k + 2].fn = "eglDestroySync"
        ELSE exc = [what |-> "Failed to create egl fence sync", from |-> "Sync"]
    /\ Count("eglCreateSync") <= 1
    /\ Count("eglDestroySync") = CountOK("eglCreateSync")
    /\ Count("eglClientWaitSync") = CountOK("eglCreateSync")

\* The wait failed, and main still returned EXIT_SUCCESS.
C12_Witness ==
    /\ pc = "exit"
    /\ status = "EXIT_SUCCESS"
    /\ \E k \in CallsOf("eglClientWaitSync") : ~calls[k].ok

(***************************************************************************)
(* C13.  Every CreateEglImage call describes its buffer with the width and *)
(* height the buffer was allocated with, offset 0 and pitch width * 4; the *)
(* source is described as width x height and the destination as            *)
(* width / 4 x height * 3 / 2; when eglCreateImage rejects the descriptor  *)
(* the call throws and yields no handle.                                   *)
(***************************************************************************)
Attrib(list, key) == (CHOOSE k \in 1..Len(list) : list[k][1] = key)

AttribValue(list, key) == list[Attrib(list, key)][2]

C13_ImportedGeometry ==
    /\ \A b \in {"rgbx", "nv12"} :
        images[b] # NoImage =>
            LET a == images[b].attrib_list IN
            /\ bufs[b] # NoBuffer
            /\ AttribValue(a, "EGL_WIDTH") = bufs[b].width
            /\ AttribValue(a, "EGL_HEIGHT") = bufs[b].height
            /\ AttribValue(a, "EGL_DMA_BUF_PLANE0_OFFSET_EXT") = 0
            /\ AttribValue(a, "EGL_DMA_BUF_PLANE0_PITCH_EXT") = bufs[b].width * 4
            /\ AttribValue(a, "EGL_DMA_BUF_PLANE0_FD_EXT") = FdOf(b)
            /\ images[b].result = "" =>
                /\ exc.what = "Failed to create egl image"
                /\ exc.from = (IF b = "rgbx" THEN "CreateEglImage_rgbx" ELSE "CreateEglImage_nv12")
                /\ \A k \in 1..Len(calls) : calls[k].obj = ImageOf(b) => ~calls[k].ok
    /\ images["rgbx"] # NoImage =>
        /\ AttribValue(images["rgbx"].attrib_list, "EGL_WIDTH") = options.width
        /\ AttribValue(images["rgbx"].attrib_list, "EGL_HEIGHT") = options.height
    /\ images["nv12"] # NoImage =>
        /\ AttribValue(images["nv12"].attrib_list, "EGL_WIDTH") * 4 = options.width
        /\ AttribValue(images["nv12"].attrib_list, "EGL_HEIGHT") * 2 = options.height * 3

\* Both buffers imported, the destination of a 16 x 20 frame as 4 x 30 with pitch 16.
C13_Witness ==
    /\ images["rgbx"].result = "image_rgbx"
    /\ images["nv12"].result = "image_nv12"
    /\ options.width = 16
    /\ options.height = 20
    /\ AttribValue(images["nv12"].attrib_list, "EGL_DMA_BUF_PLANE0_PITCH_EXT") = 16
    /\ AttribValue(images["nv12"].attrib_list, "EGL_HEIGHT") = 30

(***************************************************************************)
(* C14.  Over the CreateGlTexture calls of a run the entry point           *)
(* glEGLImageTargetTexture2DOES is looked up at most once, in the first    *)
(* call and before any texture name is generated; the second call reuses   *)
(* it; a lookup that fails throws with no texture name generated.          *)
(***************************************************************************)
C14_ResolvedOnce ==
    /\ Count("glGetString") <= 1
    /\ Count("eglGetProcAddress") <= 1
    /\ resolved <=> CountOK("eglGetProcAddress") = 1
    /\ \A g \in CallsOf("glGenTextures") :
        \E q \in CallsOf("eglGetProcAddress") : q < g /\ calls[q].ok
    /\ \A q \in CallsOf("glGetString") \cup CallsOf("eglGetProcAddress") :
        /\ \A g \in CallsOf("glGenTextures") : q < g
        /\ \A k \in 1..Len(calls) : calls[k].obj = "image_nv12" => q < k
    /\ (Count("glGetString") = 1 /\ ~resolved) =>
        /\ Count("glGenTextures") = 0
        /\ exc.from = "CreateGlTexture_rgbx"
        /\ exc.what \in {"Failed to get gl extensions",
                         "Required extenstion GL_OES_EGL_image is not supported",
                         "Failed to import glEGLImageTargetTexture2DOES"}

\* Two textures created with one lookup.
C14_Witness ==
    /\ CountOK("glGenTextures") = 2
    /\ Count("eglGetProcAddress") = 1
    /\ Count("glGetString") = 1
    /\ pc = "CreateFramesconv"
(***************************************************************************)
(* The kernels, under KernelSpec.                                          *)
(***************************************************************************)
\* main has validated the sizes, allocated the buffers and filled the source.
Filled == pc \in {"Convert", "DrainTo", "exit"} /\ rgbx_data # <<>>

\* DrainTo has written the converted frame.
Converted == pc = "exit" /\ status = "EXIT_SUCCESS"

\* The imageLoads of the dispatch that read pixel (x, y).
LoadsOf(x, y) ==
    {<<id, k>> \in GlobalInvocations(options.width, options.height) \X (1..8) :
        LoadCoord(id, k) = <<x, y>>}

\* C15: the dispatch of (width / 8, height / 4, 1) workgroups of 2 x 2 invocations,
\* each loading the 4 x 2 block at (4 * gid.x, 2 * gid.y), loads every pixel of the
\* source exactly once and no coordinate outside the source.
C15_DispatchCoversSource ==
    (Filled /\ ~options.es20) =>
        /\ \A x \in 0..(options.width - 1), y \in 0..(options.height - 1) :
            Cardinality(LoadsOf(x, y)) = 1
        /\ \A id \in GlobalInvocations(options.width, options.height), k \in 1..8 :
            Inside(bufs["rgbx"], LoadCoord(id, k)[1], LoadCoord(id, k)[2])

C15_Witness ==
    /\ Converted
    /\ ~options.es20
    /\ options.width = 16
    /\ options.height = 8
    /\ Cardinality(GlobalInvocations(options.width, options.height)) = 16

\* The pixel (x, y) of the input file: R, G and B are bytes 0, 1 and 2 of its four.
SourcePixel(x, y) ==
    LET o == 4 * (y * options.width + x)
    IN  [r |-> rgbx_data[o + 1], g |-> rgbx_data[o + 2], b |-> rgbx_data[o + 3]]

\* BT.709 full-range luma of a pixel, as a fraction of bytes.
Bt709Luma(p) == Q(2126 * p.r + 7152 * p.g + 722 * p.b, 10000)

\* The output byte at an offset counted from zero.
OutputByte(o) == output[o + 1]

LumaIsOfSamePixel ==
    \A x \in 0..(options.width - 1), y \in 0..(options.height - 1) :
        OutputByte(y * options.width + x) = Unorm8(Bt709Luma(SourcePixel(x, y)))

\* C16: after Convert with either kernel, Sync and DrainTo, the output byte at
\* y * width + x is the quantised BT.709 luma of the source pixel (x, y).
C16_LumaOfSamePixel == Converted => LumaIsOfSamePixel

\* C16, for the compute kernel alone.
C16_ComputeLuma == (Converted /\ ~options.es20) => LumaIsOfSamePixel

IsImpulseAt(x, y) == rgbx_data = ImpulseFrame(bufs["rgbx"], x, y)

C16_Witness ==
    /\ Converted
    /\ ~options.es20
    /\ options.width = 16
    /\ IsImpulseAt(5, 3)
    /\ OutputByte(3 * 16 + 5) = 54
    /\ OutputByte(3 * 16 + 4) = 0

\* BT.709 full-range chroma of a pixel, offset to the middle of the byte range:
\* (b - y) / (2 (1 - 0.0722)) + 0.5 and (r - y) / (2 (1 - 0.2126)) + 0.5.
Bt709U(p) == Q(2 * (10000 * p.b - Bt709Luma(p).num) + 255 * 18556, 2 * 18556)
Bt709V(p) == Q(2 * (10000 * p.r - Bt709Luma(p).num) + 255 * 15748, 2 * 15748)

\* The four pixels of chroma position (cx, cy).
ChromaBlock(cx, cy) ==
    <<SourcePixel(2 * cx, 2 * cy), SourcePixel(2 * cx + 1, 2 * cy),
      SourcePixel(2 * cx, 2 * cy + 1), SourcePixel(2 * cx + 1, 2 * cy + 1)>>

MeanU(blk) == Mean4(Bt709U(blk[1]), Bt709U(blk[2]), Bt709U(blk[3]), Bt709U(blk[4]))
MeanV(blk) == Mean4(Bt709V(blk[1]), Bt709V(blk[2]), Bt709V(blk[3]), Bt709V(blk[4]))

ChromaOffset(cx, cy) == options.width * options.height + cy * options.width + 2 * cx

ChromaIsMeanOfBlock ==
    \A cx \in 0..(options.width \div 2 - 1), cy \in 0..(options.height \div 2 - 1) :
        /\ OutputByte(ChromaOffset(cx, cy)) = Unorm8(MeanU(ChromaBlock(cx, cy)))
        /\ OutputByte(ChromaOffset(cx, cy) + 1) = Unorm8(MeanV(ChromaBlock(cx, cy)))

\* C17: for every chroma position (cx, cy) the output bytes at
\* width * height + cy * width + 2 * cx and the one after it are U and V, the mean
\* of (u, v) of exactly the pixels (2cx, 2cy), (2cx + 1, 2cy), (2cx, 2cy + 1) and
\* (2cx + 1, 2cy + 1), with either kernel.
C17_ChromaOfBlock == Converted => ChromaIsMeanOfBlock

\* C17, for the compute kernel alone.
C17_ComputeChroma == (Converted /\ ~options.es20) => ChromaIsMeanOfBlock

C17_Witness ==
    /\ Converted
    /\ ~options.es20
    /\ options.width = 16
    /\ options.height = 8
    /\ IsImpulseAt(5, 3)
    /\ OutputByte(ChromaOffset(2, 1)) = 120
    /\ OutputByte(ChromaOffset(2, 1) + 1) = 159
    /\ OutputByte(ChromaOffset(1, 1) + 1) = 128

\* What the kernel that was not selected makes of the same source buffer.
OtherVariant ==
    IF options.es20
    THEN {ComputeKernel(rgbx_data, bufs["rgbx"], mem) : mem \in FreshMemory(bufs["nv12"])}
    ELSE {RenderKernel(rgbx_data, bufs["rgbx"], tie) : tie \in {0, 1} \X {0, 1}}

Distance(a, b) == IF a < b THEN b - a ELSE a - b

WithinOne(m) == \A o \in 1..Len(output) : Distance(output[o], m[o]) <= 1

IsUniform == \E c \in Palette : rgbx_data = UniformFrame(bufs["rgbx"], c)

\* C18: the two variants, run on identical input, produce luma and chroma bytes
\* that differ by at most 1.
C18_VariantsAgree == Converted => \A m \in OtherVariant : WithinOne(m)

\* C18, for frames of one colour.
C18_VariantsAgreeOnUniform == (Converted /\ IsUniform) => \A m \in OtherVariant : WithinOne(m)

C18_Witness ==
    /\ Converted
    /\ options.es20
    /\ rgbx_data = UniformFrame(bufs["rgbx"], <<10, 200, 77>>)
    /\ \A m \in OtherVariant : WithinOne(m)

\* A byte that is within one quantisation step of a value.
Near(byte, q) == Distance(byte * q.den, q.num) <= q.den

\* C19: for every accepted size and every frame of one RGB colour, with either
\* kernel, every luma byte is the BT.709 luma 0.2126 r + 0.7152 g + 0.0722 b and
\* every chroma pair is ((b - y) / (2 (1 - 0.0722)) + 0.5, (r - y) / (2 (1 - 0.2126)) + 0.5)
\* scaled to 8 bits, within one quantisation step.
C19_UniformColour ==
    (Converted /\ IsUniform) =>
        LET p == SourcePixel(0, 0) IN
        /\ \A o \in 0..(options.width * options.height - 1) : Near(OutputByte(o), Bt709Luma(p))
        /\ \A cx \in 0..(options.width \div 2 - 1), cy \in 0..(options.height \div 2 - 1) :
            /\ Near(OutputByte(ChromaOffset(cx, cy)), Bt709U(p))
            /\ Near(OutputByte(ChromaOffset(cx, cy) + 1), Bt709V(p))

C19_Witness ==
    /\ Converted
    /\ options.es20
    /\ options.width = 16
    /\ rgbx_data = UniformFrame(bufs["rgbx"], <<0, 0, 255>>)
    /\ OutputByte(0) = 18
    /\ OutputByte(ChromaOffset(0, 0)) = 255
    /\ OutputByte(ChromaOffset(0, 0) + 1) = 116

\* The command line asks for a 4 x 4 frame.
FourByFour == argv[2] = tok_4 /\ argv[4] = tok_4

IsAllRed == rgbx_data = UniformFrame(bufs["rgbx"], Red)

\* Every luma byte is 54, every U byte is below and every V byte above the middle.
RedConverted ==
    /\ \A o \in 0..(options.width * options.height - 1) : OutputByte(o) = 54
    /\ \A cx \in 0..(options.width \div 2 - 1), cy \in 0..(options.height \div 2 - 1) :
        /\ OutputByte(ChromaOffset(cx, cy)) < 127
        /\ OutputByte(ChromaOffset(cx, cy) + 1) > 128

\* C20 as stated: a 4 x 4 all-red source passes input validation and is converted,
\* with every luma byte 54, every U byte below and every V byte above the middle.
C20_FourByFourRed ==
    (FourByFour /\ pc = "exit") => (status = "EXIT_SUCCESS" /\ (IsAllRed => RedConverted))

\* C20, amended: a 4 x 4 source is rejected by input validation before anything is
\* filled or converted; an all-red source of an accepted size is converted with
\* either kernel to luma 54 everywhere, every U byte below and every V byte above
\* the middle.
C20_RedFrame ==
    /\ (FourByFour /\ pc = "exit") =>
        /\ status = "EXIT_FAILURE"
        /\ exc.what = "Size must be aligned"
        /\ rgbx_data = <<>>
        /\ output = <<>>
    /\ (Converted /\ IsAllRed) => RedConverted

C20_Witness ==
    /\ Converted
    /\ IsAllRed
    /\ options.width = 8
    /\ options.height = 4
    /\ OutputByte(0) = 54
    /\ OutputByte(ChromaOffset(0, 0)) = 98
    /\ OutputByte(ChromaOffset(0, 0) + 1) = 255

(***************************************************************************)
(* The render kernel's packing, under KernelSpec.                          *)
(***************************************************************************)
Ties == {0, 1} \X {0, 1}

\* The fragments of the draw: the texels of the destination texture.
Fragments == (0..(bufs["nv12"].width - 1)) \X (0..(bufs["nv12"].height - 1))

\* The four samples a fragment packs, in logical order: luma[0..3], or the two
\* chroma pairs (u, v) of the left and of the right 2 x 2 block.
LogicalSamples(f, tie) ==
    LET S(k, j) == texture2D(rgbx_data, bufs["rgbx"], SampleX2(bufs["rgbx"], f[1], k),
                             IF IsLumaFragment(bufs["rgbx"], f[2])
                             THEN LumaY2(bufs["rgbx"], f[2])
                             ELSE ChromaY2(bufs["rgbx"], f[2], j), tie)
        C(k, j) == rgb2chroma(S(k, j))
    IN  IF IsLumaFragment(bufs["rgbx"], f[2])
        THEN <<rgb2luma(S(0, 0)), rgb2luma(S(1, 0)), rgb2luma(S(2, 0)), rgb2luma(S(3, 0))>>
        ELSE <<Mean4(C(0, 0).u, C(1, 0).u, C(0, 1).u, C(1, 1).u),
               Mean4(C(0, 0).v, C(1, 0).v, C(0, 1).v, C(1, 1).v),
               Mean4(C(2, 0).u, C(3, 0).u, C(2, 1).u, C(3, 1).u),
               Mean4(C(2, 0).v, C(3, 0).v, C(2, 1).v, C(3, 1).v)>>

gl_FragColor(f, tie) ==
    IF IsLumaFragment(bufs["rgbx"], f[2])
    THEN handle_luma(rgbx_data, bufs["rgbx"], f[1], f[2], tie)
    ELSE handle_chroma(rgbx_data, bufs["rgbx"], f[1], f[2], tie)

\* The four bytes of the destination texel of a fragment, in memory order.
TexelBytes(mem, f) ==
    LET o == TexelOffset(bufs["nv12"].width, f[1], f[2])
    IN  <<mem[o + 1], mem[o + 2], mem[o + 3], mem[o + 4]>>

\* Some rounding of the sampler under which the buffer holds, texel by texel, the
\* four logical samples in their order.
InLogicalOrder(mem) ==
    \E tie \in Ties : \A f \in Fragments :
        TexelBytes(mem, f) = [k \in 1..4 |-> Unorm8(LogicalSamples(f, tie)[k])]

\* C21 as stated: the baseline variant stores the four samples of a texel in
\* reversed channel order, the last channel holding the first logical sample, for
\* luma and chroma fragments alike, and the bytes are in memory in logical order.
C21_LastChannelHoldsFirst ==
    (Converted /\ options.es20) =>
        /\ \A tie \in Ties, f \in Fragments :
            LET s == LogicalSamples(f, tie)
                c == gl_FragColor(f, tie)
            IN  c.a = s[1] /\ c.b = s[2] /\ c.g = s[3] /\ c.r = s[4]
        /\ InLogicalOrder(output)

\* C21, amended: the first and the third channel are exchanged (.bgra): blue holds
\* the first logical sample, green the second, red the third and alpha the fourth,
\* for luma and chroma fragments alike, and the bytes are in memory in logical
\* order.
C21_BlueHoldsFirst ==
    (Converted /\ options.es20) =>
        /\ \A tie \in Ties, f \in Fragments :
            LET s == LogicalSamples(f, tie)
                c == gl_FragColor(f, tie)
            IN  c.b = s[1] /\ c.g = s[2] /\ c.r = s[3] /\ c.a = s[4]
        /\ InLogicalOrder(output)

C21_Witness ==
    /\ Converted
    /\ options.es20
    /\ options.width = 8
    /\ IsImpulseAt(5, 1)
    /\ \E f \in Fragments, tie \in Ties :
        /\ ~IsLumaFragment(bufs["rgbx"], f[2])
        /\ LogicalSamples(f, tie)[1] # LogicalSamples(f, tie)[3]
        /\ gl_FragColor(f, tie).b = LogicalSamples(f, tie)[1]
    /\ \E f \in Fragments, tie \in Ties :
        /\ IsLumaFragment(bufs["rgbx"], f[2])
        /\ LogicalSamples(f, tie)[1] # LogicalSamples(f, tie)[4]
        /\ gl_FragColor(f, tie).a = LogicalSamples(f, tie)[4]
    /\ InLogicalOrder(output)

(***************************************************************************)
(* Errors and teardown, under Spec.                                        *)
(***************************************************************************)
\* glCheckFramebufferStatus reported something other than GL_FRAMEBUFFER_COMPLETE.
FramebufferIncomplete ==
    \E k \in CallsOf("glCheckFramebufferStatus") : ~calls[k].ok

\* C22: in the raster variant's Convert, whenever the framebuffer status queried
\* after attaching the destination texture is not complete, an error is raised and
\* no glDrawArrays is issued during that call.
C22_IncompleteNeverDraws ==
    FramebufferIncomplete =>
        /\ exc = [what |-> "Framebuffer is incomplete", from |-> "Convert"]
        /\ pc \in {"unwind", "exit"}
        /\ Count("glDrawArrays") = 0
        /\ status \in {"running", "EXIT_FAILURE", "terminate"}

C22_Witness ==
    /\ FramebufferIncomplete
    /\ options.es20
    /\ status = "EXIT_FAILURE"
    /\ Count("glFramebufferTexture2D") = 1
    /\ Count("glDrawArrays") = 0

\* C23, under ErrorSpec: every error raised because of a native GL or EGL error
\* code carries the message followed by the symbolic name of exactly that code,
\* for every code the native layer can report.
C23_ErrorCarriesName ==
    \A k \in 1..Len(calls) :
        calls[k].fn \in {"eglGetError", "glGetError"} =>
            /\ exc.what = <<exc.from, ": ", calls[k].obj.name>>
            /\ exc.what[3] # "???"

C23_Witness ==
    /\ status = "EXIT_FAILURE"
    /\ calls = <<Call("glGetError", [code |-> 1286, name |-> "GL_INVALID_FRAMEBUFFER_OPERATION"], TRUE)>>
    /\ exc.what = <<"Conversion failed", ": ", "GL_INVALID_FRAMEBUFFER_OPERATION">>

\* A step of the run failed: it threw, a native call that is not part of the
\* teardown reported failure, or the process crashed.
StepFailed ==
    \/ exc # NoException
    \/ \E k \in 1..Len(calls) : ~calls[k].ok /\ ~IsRelease(calls[k])
    \/ status = "crash"

\* The calls by which a step of main shows in the log.
StepFns ==
    AcquireFns \cup {"eglMakeCurrent", "glCheckFramebufferStatus", "glDrawArrays",
                     "glDispatchCompute", "eglClientWaitSync"}

\* No step is attempted twice: no such call is made twice on one object, and the
\* buffers are mapped at most twice, once to fill and once to drain.
OnceEach ==
    /\ \A k \in 1..Len(calls) : \A j \in 1..(k - 1) :
        (calls[k].fn \in StepFns /\ calls[j].fn = calls[k].fn) => calls[j].obj # calls[k].obj
    /\ Cardinality({k \in 1..Len(maps) : maps[k].fn = "mmap"}) <= 2

\* C24 as stated: every failure of any step reaches main's catch clause and the
\* process exits with failure status; it exits with success status if and only
\* if every step up to and including the drain succeeded; no step is attempted
\* more than once.
C24_AllFailuresCaught ==
    /\ pc = "exit" => status \in {"EXIT_SUCCESS", "EXIT_FAILURE"}
    /\ pc = "exit" => (status = "EXIT_SUCCESS" <=> ~StepFailed)
    /\ OnceEach

\* C24, the part that holds: an exception thrown by a step ends the run in the
\* catch clause with EXIT_FAILURE, unless un-binding the context fails on the way
\* and the process terminates; a run that ends with EXIT_SUCCESS threw nothing,
\* drained every byte, and no call of it failed other than the fence wait and
\* teardown calls; no step is attempted more than once.
C24_ThrownFailuresCaught ==
    /\ (pc = "exit" /\ exc # NoException) =>
        /\ status \in {"EXIT_FAILURE", "terminate"}
        /\ status = "terminate" =>
            \E k \in CallsOf("eglMakeCurrent") : ~calls[k].ok /\ calls[k].obj = "EGL_NO_CONTEXT"
    /\ status = "EXIT_FAILURE" => exc # NoException /\ scope = <<>>
    /\ status = "EXIT_SUCCESS" =>
        /\ exc = NoException
        /\ written = bufs["nv12"].width * bufs["nv12"].height * 4
        /\ written > 0
        /\ \A k \in 1..Len(calls) :
            ~calls[k].ok => (IsRelease(calls[k]) \/ calls[k].fn = "eglClientWaitSync")
    /\ OnceEach

\* A run whose draw failed: caught, EXIT_FAILURE, every object destroyed.
C24_Witness ==
    /\ status = "EXIT_FAILURE"
    /\ exc = [what |-> "Conversion failed", from |-> "Convert"]
    /\ scope = <<>>
    /\ Count("glDrawArrays") = 1
    /\ Count("eglTerminate") = 1

\* CreateGlProgram(source) has been called and has returned or thrown.
ProgramAttempted == ~options.es20 /\ Count("glCreateShader") > 0

InScope(obj) == \E k \in 1..Len(scope) : scope[k] = obj

\* C25: CreateGlProgram treats a compile failure and a link failure as fatal and
\* raises an error that carries the native info log; on every path the shader is
\* deleted exactly once, the program is deleted exactly once if linking or its
\* check fails, and a program is returned undeleted if and only if compilation
\* and linking both succeeded.
C25_ProgramBuild ==
    ProgramAttempted =>
        LET threw == exc.from = "CreateFramesconv"
            linked == CountOK("glGetProgramiv") = 1
        IN  /\ \A k \in CallsOf("glGetShaderiv") \cup CallsOf("glGetProgramiv") :
                ~calls[k].ok => (threw /\ exc.what = InfoLog(calls[k].obj))
            /\ \A k \in CallsOf("glCompileShader") \cup CallsOf("glLinkProgram") :
                ~calls[k].ok => threw
            /\ CountOK("glGetShaderiv") = 0 => (threw /\ Count("glCreateProgram") = 0)
            /\ Count("glDeleteShader") = CountOK("glCreateShader")
            /\ (CountOK("glCreateProgram") = 1 /\ ~linked) =>
                /\ threw
                /\ Count("glDeleteProgram") = 1
                /\ \A d \in CallsOf("glDeleteProgram"), e \in CallsOf("glDeleteShader") : d < e
            /\ CountOK("glCreateProgram") = 0 => Count("glDeleteProgram") = 0
            /\ linked <=> ~threw
            /\ linked => Count("glDeleteProgram") = (IF InScope("framesconv") THEN 0 ELSE 1)
            /\ (linked /\ pc = "Convert") => InScope("framesconv")

\* The link status was not GL_TRUE: the error is the program's info log, and the
\* program and the shader were deleted once each.
C25_Witness ==
    /\ ProgramAttempted
    /\ status = "EXIT_FAILURE"
    /\ exc = [what |-> InfoLog("program"), from |-> "CreateFramesconv"]
    /\ Count("glDeleteProgram") = 1
    /\ Count("glDeleteShader") = 1

\* The teardown calls of the log that reported failure.
FailedTeardown == {k \in Releases : ~calls[k].ok}

FailedUnbind == {k \in FailedTeardown : calls[k].fn = "eglMakeCurrent"}

\* C26 as stated: a failure of a native teardown call during scope exit is never
\* escalated: the remaining teardown steps still run, and the process finishes
\* through main's return or its catch clause with the status of the primary
\* outcome.
C26_TeardownNeverEscalates ==
    (FailedTeardown # {} /\ pc = "exit") =>
        /\ scope = <<>>
        /\ status = (IF exc = NoException THEN "EXIT_SUCCESS" ELSE "EXIT_FAILURE")

\* C26, the part that holds: a failure of eglDestroyContext or eglTerminate is
\* not escalated; the process terminates during scope exit exactly when
\* un-binding the context failed, and that call is then the last one made.
C26_DestroyFailuresIgnored ==
    /\ (FailedTeardown # {} /\ FailedUnbind = {} /\ pc = "exit") =>
        /\ scope = <<>>
        /\ status = (IF exc = NoException THEN "EXIT_SUCCESS" ELSE "EXIT_FAILURE")
        /\ \A k \in FailedTeardown :
            calls[k].fn = "eglDestroyContext" => (k < Len(calls) /\ calls[k + 1].fn = "eglTerminate")
    /\ status = "terminate" <=> FailedUnbind # {}
    /\ \A k \in FailedUnbind : k = Len(calls) /\ InScope("context") /\ pc = "exit"

\* Both eglDestroyContext and eglTerminate failed, and main returned EXIT_SUCCESS
\* after destroying everything.
C26_Witness ==
    /\ status = "EXIT_SUCCESS"
    /\ scope = <<>>
    /\ \E k \in FailedTeardown : calls[k].fn = "eglDestroyContext"
    /\ \E k \in FailedTeardown : calls[k].fn = "eglTerminate"
    /\ \E k \in CallsOf("gbm_device_destroy") : \A j \in FailedTeardown : j < k

(***************************************************************************)
(* The sequence of main, under Spec.                                       *)
(***************************************************************************)
\* The calls Convert makes on the two textures and the kernel.
ConvertCalls ==
    {k \in 1..Len(calls) :
        calls[k].fn \in {"glBindImageTexture", "glDispatchCompute", "glMemoryBarrier",
                         "glFramebufferTexture2D", "glCheckFramebufferStatus", "glDrawArrays"}}

\* The source buffer was mapped, filled with all its bytes and unmapped.
SourceFilled ==
    /\ Len(maps) >= 2
    /\ maps[1].fn = "mmap" /\ maps[1].addr # 0
    /\ maps[2].fn = "munmap"
    /\ source.good /\ source.avail >= bufs["rgbx"].width * bufs["rgbx"].height * 4

Imported(name) ==
    {k \in CallsOf("glEGLImageTargetTexture2DOES") : calls[k].obj = TextureOf(name) /\ calls[k].ok}

\* C27: in every run that reaches the drain, the destination is drained only after
\* Sync has returned, Sync is called only after Convert has returned (with the
\* memory barrier after the dispatch), Convert runs only after the source has been
\* filled completely and both buffers have been imported as textures; each
\* allocation, each import, Convert and Sync occurs exactly once.
C27_StrictSequence ==
    /\ ConvertCalls # {} =>
        /\ SourceFilled
        /\ \A c \in ConvertCalls :
            /\ \E k \in Imported("rgbx") : k < c
            /\ \E k \in Imported("nv12") : k < c
    /\ \A d \in CallsOf("glDispatchCompute") :
        d < Len(calls) /\ calls[d + 1].fn = "glMemoryBarrier"
    /\ \A y \in CallsOf("eglCreateSync") :
        /\ \A c \in ConvertCalls : c < y
        /\ IF options.es20
           THEN \E c \in CallsOf("glDrawArrays") : calls[c].ok
           ELSE \E c \in CallsOf("glDispatchCompute") : calls[c].ok
    /\ DrainCalled =>
        /\ CountOK("eglCreateSync") = 1
        /\ Count("eglClientWaitSync") = 1
        /\ Count("eglDestroySync") = 1
        /\ Count("glDispatchCompute") + Count("glDrawArrays") = 1
        /\ CountOK("gbm_bo_create") = 2 /\ Count("gbm_bo_create") = 2
        /\ CountOK("eglCreateImage") = 2 /\ Count("eglCreateImage") = 2
        /\ Cardinality(Imported("rgbx")) = 1 /\ Cardinality(Imported("nv12")) = 1
        /\ Count("glEGLImageTargetTexture2DOES") = 2
        /\ maps[3].fn = "mmap"
        /\ Cardinality({k \in 1..Len(maps) : maps[k].fn = "mmap"}) = 2

C27_Witness ==
    /\ DrainCalled
    /\ ~options.es20
    /\ status = "EXIT_SUCCESS"
    /\ \E d \in CallsOf("glDispatchCompute"), b \in CallsOf("glMemoryBarrier"),
          y \in CallsOf("eglCreateSync") : d < b /\ b < y
    /\ written > 0

\* The constructor of FramesconvES20 has run.
RasterAttempted == options.es20 /\ Count("glGenFramebuffers") > 0

\* The names of the raster kernel with the calls that acquire and delete them, in
\* acquisition order.
RasterNames ==
    <<[acquire |-> "glGenFramebuffers", delete |-> "glDeleteFramebuffers"],
      [acquire |-> "glGenBuffers", delete |-> "glDeleteBuffers"],
      [acquire |-> "glCreateProgram", delete |-> "glDeleteProgram"]>>

\* C28: FramesconvES20's constructor acquires framebuffer, vertex buffer object
\* and program in that order; if any step fails, every name already acquired is
\* deleted exactly once, in reverse order, before the exception propagates; on
\* success the constructor deletes nothing and the destructor later deletes
\* program, buffer object and framebuffer once each; no name is deleted twice.
C28_RasterNames ==
    RasterAttempted =>
        LET threw == exc.from = "CreateFramesconv"
            alive == InScope("framesconv")
        IN  /\ \A n \in 1..3 : Count(RasterNames[n].acquire) <= 1 /\ Count(RasterNames[n].delete) <= 1
            /\ \A n \in 1..2 : \A a \in CallsOf(RasterNames[n].acquire), b \in CallsOf(RasterNames[n + 1].acquire) :
                a < b /\ calls[a].ok
            /\ \A n \in 1..2 : \A d \in CallsOf(RasterNames[n].delete), e \in CallsOf(RasterNames[n + 1].delete) :
                e < d
            /\ \A n \in 1..3 : \A d \in CallsOf(RasterNames[n].delete) :
                \E a \in CallsOf(RasterNames[n].acquire) : calls[a].ok /\ a < d
            /\ threw =>
                /\ \A n \in 1..3 : Count(RasterNames[n].delete) = CountOK(RasterNames[n].acquire)
                /\ \A k \in CallsOf("glDeleteTextures") :
                    \A n \in 1..3 : \A d \in CallsOf(RasterNames[n].delete) : d < k
            /\ ~threw =>
                /\ \A n \in 1..3 : CountOK(RasterNames[n].acquire) = 1
                /\ \A n \in 1..3 : Count(RasterNames[n].delete) = (IF alive THEN 0 ELSE 1)
                /\ (pc \in {"Convert", "Sync", "DrainTo"}) => alive

\* The second uniform lookup failed: program, buffer object and framebuffer were
\* deleted once each, in that order, and the run ended with EXIT_FAILURE.
C28_Witness ==
    /\ RasterAttempted
    /\ status = "EXIT_FAILURE"
    /\ exc = [what |-> "Failed to get img_input_size location", from |-> "CreateFramesconv"]
    /\ \E p \in CallsOf("glDeleteProgram"), b \in CallsOf("glDeleteBuffers"),
          f \in CallsOf("glDeleteFramebuffers") : p < b /\ b < f

\* The raster variant's Convert has been called and has returned or thrown.
RasterConverted == options.es20 /\ Count("glFramebufferTexture2D") > 0

Restored ==
    [framebuffer |-> "0", array_buffer |-> "0", texture_2d |-> "0", program |-> "0",
     error |-> "GL_NO_ERROR"]

\* C29 as stated: whenever the raster variant's Convert returns or throws, the
\* framebuffer, array-buffer and 2D texture bindings are 0, no program is in use,
\* and no GL error that Convert generated is left pending.
C29_BindingsRestored == RasterConverted => GlState(calls) = Restored

\* C29, the part that holds: the state is restored when Convert returns and when
\* it throws 'Conversion failed'; when the framebuffer is incomplete the
\* framebuffer stays bound and GL_INVALID_ENUM is left pending.
C29_RestoredUnlessIncomplete ==
    RasterConverted =>
        GlState(calls) = IF FramebufferIncomplete
                         THEN [Restored EXCEPT !.framebuffer = "framebuffer", !.error = "GL_INVALID_ENUM"]
                         ELSE Restored

C29_Witness ==
    /\ RasterConverted
    /\ exc = [what |-> "Conversion failed", from |-> "Convert"]
    /\ status = "EXIT_FAILURE"
    /\ GlState(calls) = Restored
    /\ \E k \in CallsOf("glBindBuffer") : calls[k].obj = "buffer_object"

(***************************************************************************)
(* The compute kernel's stores, under KernelSpec.                          *)
(***************************************************************************)
\* The imageStores of the dispatch, one per invocation and store statement
\* (1, 2: luma rows; 3: chroma row).
AllStores == GlobalInvocations(options.width, options.height) \X (1..3)

StoreAt(s) == StoreCoords(bufs["rgbx"], s[1])[s[2]]

\* C30: for every accepted size all image stores of the compute kernel fall inside
\* the destination texture of width / 4 x height * 3 / 2 texels, every destination
\* texel is written by exactly one store of one invocation, and luma stores occupy
\* rows [0, height), chroma stores rows [height, height * 3 / 2).
C30_StoresTileDestination ==
    (Filled /\ ~options.es20) =>
        LET dst == bufs["nv12"]
        IN  /\ dst = [width |-> options.width \div 4, height |-> (options.height * 3) \div 2]
            /\ \A s \in AllStores : Inside(dst, StoreAt(s)[1], StoreAt(s)[2])
            /\ \A x \in 0..(dst.width - 1), y \in 0..(dst.height - 1) :
                Cardinality({s \in AllStores : StoreAt(s) = <<x, y>>}) = 1
            /\ \A s \in AllStores :
                IF s[2] = 3
                THEN StoreAt(s)[2] >= options.height /\ StoreAt(s)[2] < (options.height * 3) \div 2
                ELSE StoreAt(s)[2] >= 0 /\ StoreAt(s)[2] < options.height
            /\ \A id \in GlobalInvocations(options.width, options.height) :
                {<<st[1], st[2]>> : st \in ComputeStores(rgbx_data, bufs["rgbx"], id)}
                    = {StoreCoords(bufs["rgbx"], id)[k] : k \in 1..3}

C30_Witness ==
    /\ Converted
    /\ ~options.es20
    /\ options.width = 16
    /\ options.height = 8
    /\ Cardinality(AllStores) = 48
    /\ \E s \in AllStores : s[2] = 3 /\ StoreAt(s) = <<3, 11>>
    /\ \E s \in AllStores : s[2] = 2 /\ StoreAt(s) = <<3, 7>>

====
